---- MODULE Spec2Model ----
(***************************************************************************)
(* Ledger-to-graph synchronizer of ledger-explorer: the resilient          *)
(* supervisor loop (sync.rs, run_resilient_sync), the ACS loader           *)
(* (sync.rs, load_acs_to_neo4j) and the batched graph writer (graph.rs,    *)
(* apply_cypher_vec_stream_to_neo4j), together with the ledger and the     *)
(* graph store they talk to.                                               *)
(*                                                                         *)
(* Time is discrete.  It passes only while the writer awaits the next      *)
(* update (action Tick); the handlers themselves take no time.             *)
(***************************************************************************)
EXTENDS Integers, Sequences, FiniteSets, TLC

(***************************************************************************)
(* Bounds of the model.                                                    *)
(***************************************************************************)
\* highest ledger offset the ledger grows to
MaxOffset == 3
\* number of successful stream opens explored in one run
MaxOpens == 2
\* cap of the u32 counter consecutive_failures
MaxFailures == 1
\* configuration: updates per batch (neo4j.batch_size)
BatchSize == 3
\* configuration: neo4j.flush_timeout_secs
FlushTimeout == 1
\* configuration: neo4j.idle_timeout_secs
IdleTimeout == 2
\* configuration: BackoffConfig.initial_delay and max_delay, in seconds
InitialDelay == 1
MaxDelay == 2

\* tasks that call the token manager concurrently
NTasks == 2
\* tokens the token source issues in one run
MaxTokens == 2
\* ticks the clock of the token manager runs
MaxTime == 6
\* largest node_id of an event of a transaction
MaxNodeId == 2
\* events of the Transaction a projection is called with
MaxEvents == 2
\* nesting depth of the Value extract_contract_ids_from_value is called with
MaxDepth == 2
\* invocations of a pure function on one input
MaxCalls == 2

(***************************************************************************)
(* Program constants.                                                      *)
(***************************************************************************)
\* jwt.rs:367  renewal_threshold: 0.8, as the fraction RenewalNum / RenewalDen
RenewalNum == 8
RenewalDen == 10
\* sync.rs:102  const BATCH_SIZE: usize = 500
ACS_BATCH_SIZE == 500
\* sync.rs:39  multiplier: 2.0
Multiplier == 2
\* jwt.rs:474  StdDuration::from_secs(60), the sleep of the background task
\* when there is no time left until the refresh
BgRetrySecs == 60
\* jwt.rs:441  24 * 60 * 60, the lifetime given to a FakeJwt token
FakeJwtLifetime == 24 * 60 * 60
\* jwt.rs:433  u64::MAX, the lifetime given to a Static token.  The value
\* stands for it within the range of the model's integers: what the code
\* computes from it, lifetime.mul_f64(renewal_threshold), neither overflows a
\* Duration (0.95 * u64::MAX s < u64::MAX s) nor is reached by any clock.
U64_MAX == 268435450
\* seconds in one tick of the clock
TickSecs == 60

\* Option<T>: None is the empty set, Some(v) the singleton of v
None == {}
Some(v) == {v}
Val(opt) == CHOOSE v \in opt : TRUE

\* sizes of the ACS snapshot the ledger may serve
AcsSizes == {0, 501}
\* number of Ok elements an ACS stream yields before an Err element
AcsErrPoints == {0, 1, 500, 501}
\* ledger ends at the start of a run
InitEnds == {0, 1}
\* values of the configured starting_offset (Option<i64>)
StartingOffsets == {None, Some(1)}

\* lifetimes (expires_in, seconds) the identity provider puts on its tokens
ExpiresIns == {300}
\* the variants of TokenSource (jwt.rs:334-341)
TokenSources == {"Static", "Keycloak", "FakeJwt"}
\* what the identity provider answers to a token request: a success response
\* with expires_in, a success response without it, or no success response
Responses == {"ok", "no_expires_in", "refused"}

\* the update the ledger commits at offset o: every second one is an
\* OffsetCheckpoint, the others are Transactions
UpdateAt(o) == IF o % 2 = 0 THEN "OffsetCheckpoint" ELSE "Transaction"

VARIABLES
    \* ---- configuration of the run (sync.rs:17-25, 194-199)
    fresh,                 \* the `fresh` flag
    starting_offset,       \* SyncConfig.starting_offset
    \* ---- the ledger
    ledger,                \* ledger[o] = kind of the update at offset o
    pruned,                \* participant_pruned_up_to_inclusive
    \* ---- the graph store
    graph_stmts,           \* statements committed by the writer, in order
    graph_acs,             \* number of Created {from_acs: true} nodes
    \* ---- locals of run_resilient_sync (sync.rs:291-294, 312)
    pc,
    current_delay,
    consecutive_failures,
    acs_loaded_checked,
    fresh_start_offset,
    begin_offset,
    \* ---- the open stream and the locals of the writer (graph.rs:70-74)
    stream_pos,            \* offset of the last update the stream delivered
    pending_queries,
    updates_in_batch,
    batch_elapsed,         \* batch_start_time.elapsed(), None when unset
    idle_elapsed,          \* last_update_time.elapsed(), saturated
    timeout_remaining,     \* time left of the running tokio timeout
    \* ---- observations of the run
    obs,
    \* ---- the token manager (jwt.rs:350-357) and its callers
    tm_state,              \* TokenManager.state: Option<TokenState>
    tm_writer,             \* the task holding the write lock of the RwLock
    tm_source,             \* TokenManager.source: the variant of TokenSource
    tm_now,                \* the clock (Instant::now), in seconds
    tm_issued,             \* number of tokens the source has issued
    tm_fetches,            \* fetches begun since the cached token was last
                           \* replaced, counted up to two
    tm_failed,             \* those of them that failed, counted up to two
    tpc,                   \* tpc[t]: where task t is inside its call
    tkind,                 \* tkind[t]: the method task t called
    tresult,               \* tresult[t]: what the call returned
    tm_resp,               \* the last answer of the identity provider
    \* ---- the supervisor's use of the token (sync.rs:298, 397, 448)
    sup_token,             \* `token` of the current loop iteration
    stream_token,          \* the token the last stream was opened with
    rejected,              \* the token the ledger rejected in the last attempt
    \* ---- the background refresh task (jwt.rs:468-491)
    bpc,                   \* its place in the loop
    bg_wake,               \* the instant its sleep ends
    \* ---- the ledger's transactions in full and the graph they are
    \* ---- projected into (cypher.rs)
    transactions,          \* transactions[o]: the Transaction at offset o
    graph_nodes,           \* the nodes of the graph
    graph_edges,           \* the relationships of the graph, with their number
    \* ---- one call site of a pure function (cypher.rs, utils.rs)
    fn_name,               \* the function that is called
    fn_update,             \* the GetUpdatesResponse it is called with
    fn_value,              \* the Option<Value> it is called with
    fn_calls               \* what the calls made so far returned, in order

\* the ledger's transactions and the graph of nodes and relationships
\* the argument of the pure function under call and its results
fnVars == << fn_name, fn_update, fn_value, fn_calls >>

projVars == << transactions, graph_nodes, graph_edges, fnVars >>

syncVars == << projVars,
               fresh, starting_offset, ledger, pruned, graph_stmts, graph_acs,
               pc, current_delay, consecutive_failures, acs_loaded_checked,
               fresh_start_offset, begin_offset, stream_pos, pending_queries,
               updates_in_batch, batch_elapsed, idle_elapsed, timeout_remaining,
               obs >>

\* the supervisor's token and the background refresh task
authVars == << sup_token, stream_token, rejected, bpc, bg_wake >>

tokenVars == << tm_source, tm_state, tm_writer, tm_now, tm_issued, tm_fetches,
                tm_failed, tpc, tkind, tresult, tm_resp, authVars >>

vars == << syncVars, tokenVars >>

cfgVars == << fresh, starting_offset >>
ledgerVars == << ledger, pruned >>
graphVars == << graph_stmts, graph_acs >>
writerVars == << stream_pos, pending_queries, updates_in_batch,
                 batch_elapsed, idle_elapsed, timeout_remaining >>

Min(a, b) == IF a <= b THEN a ELSE b
Max(a, b) == IF a >= b THEN a ELSE b

(***************************************************************************)
(* Projection (cypher.rs, get_updates_response_to_cypher), reduced to the  *)
(* nodes its statements create: a Transaction yields the CREATE of the     *)
(* Transaction node followed by the statements of its events, every other  *)
(* update yields no statement.                                             *)
(***************************************************************************)
get_updates_response_to_cypher(o, kind) ==
    IF kind = "Transaction"
    THEN << [stmt |-> "CreateTransaction", offset |-> o],
            [stmt |-> "CreateEvents", offset |-> o] >>
    ELSE << >>

\* projection of the ledger's updates b+1 .. e, concatenated
RECURSIVE ProjectRange(_, _, _)
ProjectRange(l, b, e) ==
    IF b >= e THEN << >>
    ELSE get_updates_response_to_cypher(b + 1, l[b + 1]) \o ProjectRange(l, b + 1, e)

(***************************************************************************)
(* graph.rs:12-33  MATCH (n) WHERE n.offset >= 0 RETURN max(n.offset).     *)
(* ACS nodes carry offset -1 and never count.                              *)
(***************************************************************************)
StmtOffsets(stmts) == { stmts[i].offset : i \in DOMAIN stmts }

get_last_processed_offset(stmts) ==
    LET offs == { o \in StmtOffsets(stmts) : o >= 0 }
    IN  IF offs = {} THEN None
        ELSE Some(CHOOSE m \in offs : \A o \in offs : o <= m)

\* number of Transaction nodes with offset o
TxNodes(stmts, o) ==
    Cardinality({ i \in DOMAIN stmts :
                    stmts[i].stmt = "CreateTransaction" /\ stmts[i].offset = o })

(***************************************************************************)
(* sync.rs:303-306  current_delay = min(current_delay * multiplier,        *)
(* max_delay)                                                              *)
(***************************************************************************)
NextDelay_uncapped(d) == d * Multiplier
NextDelay(d) == Min(d * Multiplier, MaxDelay)

RECURSIVE Pow(_, _)
Pow(b, k) == IF k = 0 THEN 1 ELSE b * Pow(b, k - 1)

\* number of failures after which the delay has reached max_delay
DelaySteps ==
    CHOOSE k \in 0 .. MaxDelay :
       /\ InitialDelay * Pow(Multiplier, k) >= MaxDelay
       /\ \A j \in 0 .. (k - 1) : InitialDelay * Pow(Multiplier, j) < MaxDelay

\* one more failure since the last successful stream open; the count is
\* kept up to DelaySteps
Failed(k) == Min(k + 1, DelaySteps)

(***************************************************************************)
(* sync.rs:77-143  load_acs_to_neo4j.  The snapshot holds the contracts    *)
(* 1 .. n; created_event_to_cypher (cypher.rs:471-493) yields one MERGE    *)
(* statement per contract.  errAt is the number of Ok elements the stream  *)
(* yields before an Err element (None: it ends normally), failCommit the   *)
(* number of the batch transaction that fails (None: none fails).          *)
(* AcsLoop is the `while let` loop, taken one batch at a time: i elements  *)
(* consumed and batch_queries empty, commits transactions done, committed  *)
(* contracts committed.  The stream yields Ok elements up to stop; when    *)
(* ACS_BATCH_SIZE of them are left the batch fills and is committed        *)
(* (sync.rs:112-118), otherwise the loop ends with the Err element         *)
(* (sync.rs:120-123) or with the end of the stream and the commit of the   *)
(* remaining queries (sync.rs:128-132).  The result is whether the load    *)
(* returned Ok, the number of contracts committed to the graph and the     *)
(* number of contracts taken from the stream.                              *)
(***************************************************************************)
RECURSIVE AcsLoop(_, _, _, _, _, _)
AcsLoop(i, n, errAt, failCommit, commits, committed) ==
    LET stop == IF errAt # None THEN Val(errAt) ELSE n
        batchLen == stop - i
    IN  IF batchLen >= ACS_BATCH_SIZE
        THEN IF failCommit = Some(commits + 1)
             THEN [ok |-> FALSE, committed |-> committed,
                   gathered |-> i + ACS_BATCH_SIZE]
             ELSE AcsLoop(i + ACS_BATCH_SIZE, n, errAt, failCommit, commits + 1,
                          committed + ACS_BATCH_SIZE)
        ELSE IF errAt # None
        THEN [ok |-> FALSE, committed |-> committed, gathered |-> stop]
        ELSE IF batchLen > 0
        THEN IF failCommit = Some(commits + 1)
             THEN [ok |-> FALSE, committed |-> committed, gathered |-> stop]
             ELSE [ok |-> TRUE, committed |-> committed + batchLen,
                   gathered |-> stop]
        ELSE [ok |-> TRUE, committed |-> committed, gathered |-> stop]

\* a loader that writes what it has gathered when it fails
load_acs_to_neo4j_flushes(openOk, n, errAt, failCommit) ==
    IF ~openOk THEN [ok |-> FALSE, committed |-> 0, gathered |-> 0]
    ELSE LET r == AcsLoop(0, n, errAt, failCommit, 0, 0)
         IN  IF r.ok THEN r ELSE [r EXCEPT !.committed = r.gathered]

load_acs_to_neo4j(openOk, n, errAt, failCommit) ==
    IF ~openOk THEN [ok |-> FALSE, committed |-> 0, gathered |-> 0]
    ELSE AcsLoop(0, n, errAt, failCommit, 0, 0)

\* a check that never finds the ACS
is_acs_loaded_never(acs) == FALSE

(***************************************************************************)
(* sync.rs:147-159  is_acs_loaded: count of Created {from_acs: true} > 0.  *)
(***************************************************************************)
is_acs_loaded(acs) == acs > 0

(***************************************************************************)
(* sync.rs:333-375  the normal-mode branch of the offset decision.         *)
(* graphQ is the outcome of get_last_processed_offset ("err", or "ok" with *)
(* the value graphMax), pruneQ the outcome of get_pruning_offset.          *)
(***************************************************************************)
\* an oracle that prefers the configured starting_offset to the graph
NormalModeOffset_config_first(graphQ, graphMax, so, pruneQ, pruneVal) ==
    IF graphQ = "ok"
    THEN IF so # None THEN Val(so)
         ELSE IF graphMax # None THEN Val(graphMax)
         ELSE IF pruneQ = "ok" THEN pruneVal ELSE 0
    ELSE IF pruneQ = "ok" THEN pruneVal ELSE 0

\* an oracle that consults the configured starting_offset when the graph
\* query fails
NormalModeOffset_err_config(graphQ, graphMax, so, pruneQ, pruneVal) ==
    IF graphQ = "ok"
    THEN IF graphMax # None THEN Val(graphMax)
         ELSE IF so # None THEN Val(so)
         ELSE IF pruneQ = "ok" THEN pruneVal ELSE 0
    ELSE IF so # None THEN Val(so)
    ELSE IF pruneQ = "ok" THEN pruneVal ELSE 0

NormalModeOffset(graphQ, graphMax, so, pruneQ, pruneVal) ==
    IF graphQ = "ok"
    THEN IF graphMax # None THEN Val(graphMax)
         ELSE IF so # None THEN Val(so)
         ELSE IF pruneQ = "ok" THEN pruneVal ELSE 0
    ELSE IF pruneQ = "ok" THEN pruneVal ELSE 0

\* a supervisor that asks for the ledger end in every fresh iteration
NeedsLedgerEnd_always(fr, anchor) == fr

\* sync.rs:312  if fresh && fresh_start_offset.is_none()
NeedsLedgerEnd(fr, anchor) == fr /\ anchor = None

\* a supervisor that opens the stream whatever the ACS load returned
AfterAcsLoad_ignores(ok) == "open"

\* sync.rs:400-412, 426-438  Ok(()) goes on to the stream, Err continues the loop
AfterAcsLoad(ok) == IF ok THEN "open" ELSE "token"

\* a count trigger that is off by one
BatchFull_late(n) == n > BatchSize

\* graph.rs:108  if updates_in_batch >= batch_size
BatchFull(n) == n >= BatchSize

\* graph.rs:129  last_update_time.elapsed() >= idle_timeout
IdleExpired_never(e) == FALSE
IdleExpired(e) == e >= IdleTimeout

\* whether the normal-mode branch calls get_pruning_offset
CallsPruning(graphQ, graphMax, so) ==
    IF graphQ = "ok" THEN graphMax = None /\ so = None ELSE TRUE

(***************************************************************************)
(* The token manager (jwt.rs, TokenManager).  Tasks call get_token or      *)
(* refresh_token; the cached TokenState sits behind a tokio RwLock.        *)
(***************************************************************************)
Tasks == 1 .. NTasks

NoResult == [tag |-> "none", token |-> 0]
OkResult(tok) == [tag |-> "ok", token |-> tok]
ErrResult == [tag |-> "err", token |-> 0]

\* jwt.rs:399-415  elapsed >= lifetime.mul_f64(renewal_threshold)
should_refresh_always(st, now) == TRUE
should_refresh(st, now) ==
    (now - st.obtained_at) * RenewalDen >= RenewalNum * st.expires_in_secs

\* tokio RwLock: the write lock is granted when no task holds it (read
\* guards are taken and dropped within one step)
CanLock_unlocked(w) == TRUE
CanLock(w) == w = None

\* jwt.rs:430-449  what a failed fetch leaves in the cache: the `?` returns
\* before the assignment to *state
AfterFailedFetch_clears(st) == None
AfterFailedFetch(st) == st

\* the configured string of a Static source
StaticToken == 1

\* jwt.rs:193-260  keycloak_jwt_with_expiry: send errors and non-success
\* statuses are errors (jwt.rs:237-247), and so is a success response that
\* does not deserialize into KeycloakTokenResponseWithExpiry, whose field
\* expires_in: u64 is required (jwt.rs:194-199, 249-252).  n is the number
\* of tokens issued so far, e the expires_in of the response.
keycloak_jwt_with_expiry(resp, e, n) ==
    IF resp = "ok"
    THEN [ok |-> TRUE, token |-> n + 1, expires_in_secs |-> e]
    ELSE [ok |-> FALSE, token |-> 0, expires_in_secs |-> 0]

\* a Static source whose token is given a lifetime of five minutes
StaticLifetime_expiring == 5 * TickSecs
\* jwt.rs:431-434  (t.clone(), u64::MAX)
StaticLifetime == U64_MAX

\* jwt.rs:430-443  the match on self.source
FetchFromSource(src, resp, e, n) ==
    CASE src = "Static" ->
             [ok |-> TRUE, token |-> StaticToken, expires_in_secs |-> StaticLifetime]
      [] src = "FakeJwt" ->
             [ok |-> TRUE, token |-> n + 1, expires_in_secs |-> FakeJwtLifetime]
      [] OTHER -> keycloak_jwt_with_expiry(resp, e, n)

\* jwt.rs:363-369  TokenManager::new(source)
TmNew(src) ==
    /\ tm_source = src
    /\ tm_state = None
    /\ tm_writer = None
    /\ tm_now = 0
    /\ tm_issued = 0
    /\ tm_fetches = 0
    /\ tm_failed = 0
    /\ tpc = [t \in Tasks |-> "idle"]
    /\ tkind = [t \in Tasks |-> "none"]
    /\ tresult = [t \in Tasks |-> NoResult]
    /\ tm_resp = "n/a"

\* the token manager of a run that uses the identity provider
TmInit == TmNew("Keycloak")

\* a task calls get_token (sync.rs:241, 298) or refresh_token (jwt.rs:485)
TmCall(t) ==
    /\ tpc[t] = "idle"
    /\ \E k \in {"get_token", "refresh_token"} :
          /\ tkind' = [tkind EXCEPT ![t] = k]
          /\ tpc' = [tpc EXCEPT ![t] = IF k = "get_token" THEN "read" ELSE "lock"]
    /\ tresult' = [tresult EXCEPT ![t] = NoResult]
    /\ UNCHANGED << syncVars, tm_source, tm_state, tm_writer, tm_now, tm_issued,
                    tm_fetches, tm_failed, tm_resp, authVars >>

\* jwt.rs:383-396  get_token: the check under the read lock
TmReadCheck(t) ==
    /\ tpc[t] = "read"
    /\ tm_writer = None
    /\ IF tm_state # None /\ ~should_refresh(Val(tm_state), tm_now)
       THEN /\ tpc' = [tpc EXCEPT ![t] = "done"]
            /\ tresult' = [tresult EXCEPT ![t] = OkResult(Val(tm_state).token)]
       ELSE /\ tpc' = [tpc EXCEPT ![t] = "lock"]
            /\ UNCHANGED tresult
    /\ UNCHANGED << syncVars, tm_source, tm_state, tm_writer, tm_now, tm_issued,
                    tm_fetches, tm_failed, tkind, tm_resp, authVars >>

\* jwt.rs:418-428  refresh_token: take the write lock, check again, and
\* either return the cached token or turn to the token source
TmWriteCheck(t) ==
    /\ tpc[t] = "lock"
    /\ CanLock(tm_writer)
    /\ IF tm_state # None /\ ~should_refresh(Val(tm_state), tm_now)
       THEN /\ tpc' = [tpc EXCEPT ![t] = "done"]
            /\ tresult' = [tresult EXCEPT ![t] = OkResult(Val(tm_state).token)]
            /\ UNCHANGED << tm_writer, tm_fetches >>
       ELSE /\ tpc' = [tpc EXCEPT ![t] = "fetching"]
            /\ tm_writer' = Some(t)
            /\ tm_fetches' = Min(tm_fetches + 1, 2)
            /\ UNCHANGED tresult
    /\ UNCHANGED << syncVars, tm_source, tm_state, tm_now, tm_issued, tm_failed,
                    tkind, tm_resp, authVars >>

\* jwt.rs:430-452  the token source answers; the write lock is released
\* when the call returns.  Only the identity provider is asked over the
\* network; the other sources answer by themselves.
TmFetchDone(t) ==
    /\ tpc[t] = "fetching"
    /\ \E resp \in (IF tm_source = "Keycloak" THEN Responses ELSE {"n/a"}),
          e \in ExpiresIns :
          LET r == FetchFromSource(tm_source, resp, e, tm_issued)
          IN  /\ tm_resp' = resp
              /\ IF r.ok
                 THEN \* Ok((token, expires_in_secs))
                      /\ tm_issued < MaxTokens
                      /\ tm_state' = Some([token |-> r.token, obtained_at |-> tm_now,
                                           expires_in_secs |-> r.expires_in_secs])
                      /\ tm_issued' = tm_issued + 1
                      /\ tm_fetches' = 0
                      /\ tm_failed' = 0
                      /\ tresult' = [tresult EXCEPT ![t] = OkResult(r.token)]
                 ELSE \* Err, propagated by `?`
                      /\ tm_state' = AfterFailedFetch(tm_state)
                      /\ tresult' = [tresult EXCEPT ![t] = ErrResult]
                      /\ tm_failed' = Min(tm_failed + 1, 2)
                      /\ UNCHANGED << tm_issued, tm_fetches >>
    /\ tpc' = [tpc EXCEPT ![t] = "done"]
    /\ tm_writer' = IF tm_writer = Some(t) THEN None ELSE tm_writer
    /\ UNCHANGED << syncVars, tm_source, tm_now, tkind, authVars >>

\* the caller has its result and may call again
TmReturn(t) ==
    /\ tpc[t] = "done"
    /\ tpc' = [tpc EXCEPT ![t] = "idle"]
    /\ UNCHANGED << syncVars, tm_source, tm_state, tm_writer, tm_now, tm_issued,
                    tm_fetches, tm_failed, tkind, tresult, tm_resp, authVars >>

\* one tick of the clock passes
TmTick ==
    /\ tm_now < MaxTime * TickSecs
    /\ tm_now' = tm_now + TickSecs
    /\ UNCHANGED << syncVars, tm_source, tm_state, tm_writer, tm_issued,
                    tm_fetches, tm_failed, tpc, tkind, tresult, tm_resp, authVars >>

(***************************************************************************)
(* Initial state: the state at sync.rs:291-294, after clear_neo4j_database *)
(* (fresh) and ensure_indexes.  In normal mode the graph may hold the      *)
(* result of an earlier run: the projection of a prefix of the ledger and  *)
(* an ACS.                                                                 *)
(***************************************************************************)
ObsInit == [ opens |-> 0, initial_begin |-> None, ledger_end_fetches |-> 0,
             acs_iter |-> None, acs_completed |-> 0,
             acs_check |-> "n/a", acs_found |-> FALSE, acs_failed |-> "no",
             acs_gathered |-> 0,
             graph_q |-> "n/a", prune_q |-> "n/a",
             delivered |-> {}, writer_ev |-> "n/a", ret |-> "n/a",
             fails |-> 0 ]

\* The record of the offset decision and of the ACS step is kept until the
\* supervisor has passed them: it is cleared when the stream-open attempt
\* of the iteration has been made (sync.rs:444-473).
AcsStepDone(o) ==
    [o EXCEPT !.acs_iter = None, !.acs_check = "n/a", !.acs_gathered = 0,
              !.acs_failed = "no", !.graph_q = "n/a", !.prune_q = "n/a"]

\* the ledger whose end is e
LedgerUpTo(e) == [o \in 1 .. e |-> UpdateAt(o)]

\* the supervisor holds no token yet (sync.rs:296); the background task is
\* at the top of its loop (jwt.rs:470)
AuthInit ==
    /\ sup_token = None
    /\ stream_token = None
    /\ rejected = None
    /\ bpc = "top"
    /\ bg_wake = 0

SyncInit ==
    /\ fresh \in BOOLEAN
    /\ starting_offset \in StartingOffsets
    /\ ledger \in { LedgerUpTo(e) : e \in InitEnds }
    /\ pruned \in 0 .. Len(ledger)
    /\ \E k \in 0 .. Len(ledger) :
          /\ (fresh => k = 0)
          /\ graph_stmts = ProjectRange(ledger, 0, k)
    /\ graph_acs \in (IF fresh THEN {0} ELSE AcsSizes)
    /\ pc = "token"
    /\ current_delay = InitialDelay
    /\ consecutive_failures = 0
    /\ acs_loaded_checked = FALSE
    /\ fresh_start_offset = None
    /\ begin_offset = 0
    /\ stream_pos = 0
    /\ pending_queries = << >>
    /\ updates_in_batch = 0
    /\ batch_elapsed = None
    /\ idle_elapsed = 0
    /\ timeout_remaining = 0
    /\ obs = ObsInit

\* outside the projection runs the full ledger and the graph of nodes are
\* not looked at
ProjInit ==
    /\ transactions = << >>
    /\ graph_nodes = {}
    /\ graph_edges = << >>

\* a GetUpdatesResponse whose update is not set
NoUpdate == [kind |-> "Absent", offset |-> 0, events |-> << >>, effective_at |-> None]

\* outside the runs of the pure functions no call is looked at
FnIdle ==
    /\ fn_name = "none"
    /\ fn_update = NoUpdate
    /\ fn_value = None
    /\ fn_calls = << >>

Init == SyncInit /\ TmInit /\ AuthInit /\ ProjInit /\ FnIdle

\* where the supervisor continues after the sleep that follows a failure:
\* `continue`, or the end of the loop body (sync.rs:308, 531)
AfterFailure_returns == "returned"
AfterFailure == "token"

\* sleep(current_delay); current_delay = min(current_delay * multiplier, max_delay); continue
Backoff ==
    /\ current_delay' = NextDelay(current_delay)
    /\ pc' = AfterFailure

\* the writer's locals after the writer has returned
WriterIdle ==
    /\ stream_pos' = 0
    /\ pending_queries' = << >>
    /\ updates_in_batch' = 0
    /\ batch_elapsed' = None
    /\ idle_elapsed' = 0
    /\ timeout_remaining' = 0

(***************************************************************************)
(* sync.rs:297-309  token_manager.get_token()                              *)
(***************************************************************************)
SupGetToken ==
    /\ pc = "token"
    /\ \/ /\ pc' = "offset"
          /\ obs' = [obs EXCEPT !.acs_iter = None, !.acs_check = "n/a",
                                !.acs_gathered = 0,
                                !.graph_q = "n/a", !.prune_q = "n/a",
                                !.writer_ev = "n/a"]
          /\ UNCHANGED current_delay
       \/ /\ Backoff
          /\ obs' = [obs EXCEPT !.fails = Failed(@)]
    /\ UNCHANGED << tokenVars, projVars, cfgVars, ledgerVars, graphVars, consecutive_failures,
                    acs_loaded_checked, fresh_start_offset, begin_offset,
                    writerVars >>

(***************************************************************************)
(* sync.rs:312-376  the starting offset of this iteration                  *)
(***************************************************************************)
SupOffset ==
    /\ pc = "offset"
    /\ IF NeedsLedgerEnd(fresh, fresh_start_offset)
       THEN \/ \* get_ledger_end Ok
               /\ fresh_start_offset' = Some(Len(ledger))
               /\ begin_offset' = Len(ledger)
               /\ pc' = "acs"
               /\ obs' = [obs EXCEPT !.ledger_end_fetches = @ + 1]
               /\ UNCHANGED current_delay
            \/ \* get_ledger_end Err
               /\ Backoff
               /\ obs' = [obs EXCEPT !.fails = Failed(@)]
               /\ UNCHANGED << fresh_start_offset, begin_offset >>
       ELSE IF fresh_start_offset # None
       THEN /\ begin_offset' = Val(fresh_start_offset)
            /\ pc' = "acs"
            /\ UNCHANGED << fresh_start_offset, current_delay, obs >>
       ELSE \E graphQ \in {"ok", "err"}, pruneQ \in {"ok", "err"} :
            LET graphMax == get_last_processed_offset(graph_stmts)
                called == CallsPruning(graphQ, graphMax, starting_offset)
            IN  /\ (~called => pruneQ = "ok")
                /\ begin_offset' = NormalModeOffset(graphQ, graphMax,
                                       starting_offset, pruneQ, pruned)
                /\ pc' = "acs"
                /\ obs' = [obs EXCEPT !.graph_q = graphQ,
                                      !.prune_q = IF called THEN pruneQ ELSE "n/a"]
                /\ UNCHANGED << fresh_start_offset, current_delay >>
    /\ UNCHANGED << tokenVars, projVars, cfgVars, ledgerVars, graphVars, consecutive_failures,
                    acs_loaded_checked, writerVars >>

(***************************************************************************)
(* sync.rs:378-442  ACS load on the first run                              *)
(***************************************************************************)
SupAcs ==
    /\ pc = "acs"
    /\ IF acs_loaded_checked
       THEN /\ pc' = "open"
            /\ UNCHANGED << graph_acs, acs_loaded_checked, current_delay, obs >>
       ELSE \E checkOk \in BOOLEAN :
            IF checkOk /\ is_acs_loaded(graph_acs)
            THEN \* Ok(true)
                 /\ acs_loaded_checked' = TRUE
                 /\ pc' = "open"
                 /\ obs' = [obs EXCEPT !.acs_check = "true", !.acs_found = TRUE]
                 /\ UNCHANGED << graph_acs, current_delay >>
            ELSE \* Ok(false), or Err: "Assuming not loaded"
                 \E openOk \in BOOLEAN, n \in AcsSizes,
                    errAt \in {None} \cup { Some(k) : k \in AcsErrPoints },
                    failCommit \in {None, Some(1), Some(2)} :
                 LET res == load_acs_to_neo4j(openOk, n, errAt, failCommit)
                 IN  /\ (errAt # None => Val(errAt) <= n)
                     /\ (~openOk => (n = 0 /\ errAt = None /\ failCommit = None))
                     /\ graph_acs' = Max(graph_acs, res.committed)
                     /\ obs' = [obs EXCEPT
                                  !.acs_check = IF checkOk THEN "false" ELSE "err",
                                  !.acs_iter = Some(begin_offset),
                                  !.acs_completed = IF res.ok THEN @ + 1 ELSE @,
                                  !.acs_gathered = res.gathered,
                                  !.acs_failed = IF res.ok THEN @
                                                 ELSE IF res.gathered > 0 THEN "partway"
                                                 ELSE "empty",
                                  !.fails = IF res.ok THEN @ ELSE Failed(@)]
                     /\ pc' = AfterAcsLoad(res.ok)
                     /\ IF res.ok
                        THEN /\ acs_loaded_checked' = TRUE
                             /\ UNCHANGED current_delay
                        ELSE /\ current_delay' = NextDelay(current_delay)
                             /\ UNCHANGED acs_loaded_checked
    /\ UNCHANGED << tokenVars, projVars, cfgVars, ledgerVars, graph_stmts, consecutive_failures,
                    fresh_start_offset, begin_offset, writerVars >>

(***************************************************************************)
(* sync.rs:507-518  the writer returned Ok: sleep(initial_delay), next     *)
(* iteration.  sync.rs:519-530  the writer returned Err.                   *)
(***************************************************************************)
\* a supervisor that counts every return of the writer as a failure
ReturnOk_counts ==
    /\ pc' = "token"
    /\ consecutive_failures' = consecutive_failures + 1
    /\ current_delay' = NextDelay(current_delay)
ReturnOk ==
    /\ pc' = "token"
    /\ UNCHANGED << current_delay, consecutive_failures >>

ReturnErr(failures, delay) ==
    /\ consecutive_failures' = failures + 1
    /\ current_delay' = NextDelay(delay)
    /\ pc' = AfterFailure

(***************************************************************************)
(* graph.rs:112-114  start_txn, run_queries, commit: one graph transaction *)
(* that either adds all statements in order or none.  Transaction nodes    *)
(* are CREATEd; no constraint makes them unique.                           *)
(***************************************************************************)
\* a commit that takes at most batch_size statements of the buffer
BatchQueries_capped(pend) == SubSeq(pend, 1, Min(Len(pend), BatchSize))
\* graph.rs:113, 139, 152, 169  txn.run_queries(pending_queries): the commit
\* is handed the whole buffer, which holds whole statement lists only
\* (graph.rs:94 extends it by one cypher_vec at a time)
BatchQueries(pend) == pend

Commit_prepends(g, stmts, ok) == IF ok THEN stmts \o g ELSE g
Commit(g, stmts, ok) == IF ok THEN g \o stmts ELSE g

(***************************************************************************)
(* graph.rs:165-194  after the loop: commit the remaining queries, query   *)
(* the max offset, return.  g is the graph at the break.                   *)
(***************************************************************************)
WriterFinish(g, pend, ev) ==
    \E commitOk \in BOOLEAN, afterOk \in BOOLEAN :
       /\ (pend = << >> => commitOk)
       /\ (~commitOk => afterOk)
       /\ graph_stmts' = Commit(g, BatchQueries(pend), commitOk)
       /\ IF commitOk /\ afterOk
          THEN ReturnOk /\ obs' = [obs EXCEPT !.ret = "ok", !.writer_ev = ev]
          ELSE ReturnErr(consecutive_failures, current_delay)
               /\ obs' = [obs EXCEPT !.ret = IF commitOk THEN "query_err"
                                                       ELSE "commit_err",
                                     !.writer_ev = ev, !.fails = Failed(@)]
       /\ WriterIdle

\* graph.rs:78-80  flush_timeout.saturating_sub(start.elapsed()), or flush_timeout
TimeoutRemaining(batchElapsed) ==
    IF batchElapsed = None THEN FlushTimeout
    ELSE Max(FlushTimeout - Val(batchElapsed), 0)

(***************************************************************************)
(* sync.rs:444-473 and graph.rs:47-74  open the update stream at           *)
(* begin_offset, reset the backoff, start the writer.                      *)
(***************************************************************************)
SupOpen ==
    /\ pc = "open"
    /\ \/ \* stream_updates Err
          /\ consecutive_failures < MaxFailures
          /\ ReturnErr(consecutive_failures, current_delay)
          /\ obs' = [AcsStepDone(obs) EXCEPT !.ret = "n/a", !.writer_ev = "n/a",
                                             !.fails = Failed(@)]
          /\ UNCHANGED writerVars
       \/ \* stream_updates Ok, the writer's first graph query fails
          /\ obs.opens < MaxOpens
          /\ ReturnErr(0, InitialDelay)
          /\ obs' = [AcsStepDone(obs) EXCEPT
                        !.opens = @ + 1, !.ret = "query_err", !.writer_ev = "n/a",
                        !.fails = Failed(0),
                        !.initial_begin = IF @ = None THEN Some(begin_offset) ELSE @]
          /\ UNCHANGED writerVars
       \/ \* stream_updates Ok, the writer enters its loop
          /\ obs.opens < MaxOpens
          /\ current_delay' = InitialDelay
          /\ consecutive_failures' = 0
          /\ pc' = "stream"
          /\ stream_pos' = begin_offset
          /\ pending_queries' = << >>
          /\ updates_in_batch' = 0
          /\ batch_elapsed' = None
          /\ idle_elapsed' = 0
          /\ timeout_remaining' = TimeoutRemaining(None)
          /\ obs' = [AcsStepDone(obs) EXCEPT
                        !.opens = @ + 1, !.ret = "n/a", !.writer_ev = "n/a",
                        !.fails = 0,
                        !.initial_begin = IF @ = None THEN Some(begin_offset) ELSE @]
    /\ UNCHANGED << tokenVars, projVars, cfgVars, ledgerVars, graphVars, acs_loaded_checked,
                    fresh_start_offset, begin_offset >>

(***************************************************************************)
(* graph.rs:86-122  Ok(Some(cypher_vec)): the stream delivers the update   *)
(* after stream_pos (sync.rs:487-498 projects it).  The timeout polls the  *)
(* stream first, so a ready update is received whatever the timer says.    *)
(***************************************************************************)
WriterReceive ==
    /\ pc = "stream"
    /\ stream_pos < Len(ledger)
    /\ LET o == stream_pos + 1
           cypher_vec == get_updates_response_to_cypher(o, ledger[o])
           pend == pending_queries \o cypher_vec
           n == updates_in_batch + 1
           started == IF batch_elapsed = None THEN Some(0) ELSE batch_elapsed
       IN  IF BatchFull(n)
           THEN \E commitOk \in BOOLEAN :
                  /\ graph_stmts' = Commit(graph_stmts, BatchQueries(pend), commitOk)
                  /\ IF commitOk
                     THEN /\ stream_pos' = o
                          /\ pending_queries' = << >>
                          /\ updates_in_batch' = 0
                          /\ batch_elapsed' = None
                          /\ idle_elapsed' = 0
                          /\ timeout_remaining' = TimeoutRemaining(None)
                          /\ obs' = [obs EXCEPT !.delivered = @ \cup {o},
                                                !.writer_ev = "received"]
                          /\ UNCHANGED << pc, current_delay, consecutive_failures >>
                     ELSE /\ ReturnErr(consecutive_failures, current_delay)
                          /\ WriterIdle
                          /\ obs' = [obs EXCEPT !.delivered = @ \cup {o},
                                                !.writer_ev = "received",
                                                !.ret = "commit_err",
                                                !.fails = Failed(@)]
           ELSE /\ stream_pos' = o
                /\ pending_queries' = pend
                /\ updates_in_batch' = n
                /\ batch_elapsed' = started
                /\ idle_elapsed' = 0
                /\ timeout_remaining' = TimeoutRemaining(started)
                /\ obs' = [obs EXCEPT !.delivered = @ \cup {o}, !.writer_ev = "received"]
                /\ UNCHANGED << graph_stmts, pc, current_delay, consecutive_failures >>
    /\ UNCHANGED << tokenVars, projVars, cfgVars, ledgerVars, graph_acs, acs_loaded_checked,
                    fresh_start_offset, begin_offset >>

(***************************************************************************)
(* graph.rs:123-126  Ok(None): the stream ended ("end"), or delivered an   *)
(* error element that take_while turned into the end ("error",             *)
(* sync.rs:477-486).  The writer sees the same Ok(None) in both cases.     *)
(***************************************************************************)
WriterStreamEnd ==
    /\ pc = "stream"
    /\ \E ev \in {"end", "error"} : WriterFinish(graph_stmts, pending_queries, ev)
    /\ UNCHANGED << tokenVars, projVars, cfgVars, ledgerVars, graph_acs, acs_loaded_checked,
                    fresh_start_offset, begin_offset >>

(***************************************************************************)
(* graph.rs:127-161  Err(_): the timeout elapsed before an update came.    *)
(***************************************************************************)
WriterTimeout ==
    /\ pc = "stream"
    /\ timeout_remaining = 0
    /\ IF IdleExpired(idle_elapsed)
       THEN \* flush the pending queries and break
            \E flushOk \in BOOLEAN :
               /\ (pending_queries = << >> => flushOk)
               /\ IF flushOk
                  THEN WriterFinish(Commit(graph_stmts, BatchQueries(pending_queries), TRUE), << >>, "idle")
                  ELSE /\ ReturnErr(consecutive_failures, current_delay)
                       /\ WriterIdle
                       /\ obs' = [obs EXCEPT !.ret = "commit_err", !.writer_ev = "idle",
                                          !.fails = Failed(@)]
                       /\ UNCHANGED graph_stmts
       ELSE IF pending_queries # << >>
       THEN \* flush the partial batch
            \E commitOk \in BOOLEAN :
               /\ graph_stmts' = Commit(graph_stmts, BatchQueries(pending_queries), commitOk)
               /\ IF commitOk
                  THEN /\ pending_queries' = << >>
                       /\ updates_in_batch' = 0
                       /\ batch_elapsed' = None
                       /\ timeout_remaining' = TimeoutRemaining(None)
                       /\ obs' = [obs EXCEPT !.writer_ev = "timeout"]
                       /\ UNCHANGED << pc, current_delay, consecutive_failures,
                                       stream_pos, idle_elapsed >>
                  ELSE /\ ReturnErr(consecutive_failures, current_delay)
                       /\ WriterIdle
                       /\ obs' = [obs EXCEPT !.ret = "commit_err", !.writer_ev = "timeout",
                                          !.fails = Failed(@)]
       ELSE \* nothing to flush: wait again
            /\ timeout_remaining' = TimeoutRemaining(batch_elapsed)
            /\ obs' = [obs EXCEPT !.writer_ev = "timeout"]
            /\ UNCHANGED << graph_stmts, pc, current_delay, consecutive_failures,
                            stream_pos, pending_queries, updates_in_batch,
                            batch_elapsed, idle_elapsed >>
    /\ UNCHANGED << tokenVars, projVars, cfgVars, ledgerVars, graph_acs, acs_loaded_checked,
                    fresh_start_offset, begin_offset >>

(***************************************************************************)
(* One unit of time passes while the writer is inside                      *)
(* tokio::time::timeout (graph.rs:83).                                     *)
(***************************************************************************)
Tick ==
    /\ pc = "stream"
    /\ batch_elapsed' = IF batch_elapsed = None THEN None
                        ELSE Some(Min(Val(batch_elapsed) + 1, FlushTimeout))
    /\ idle_elapsed' = Min(idle_elapsed + 1, IdleTimeout)
    /\ timeout_remaining' = Max(timeout_remaining - 1, 0)
    /\ UNCHANGED << tokenVars, projVars, cfgVars, ledgerVars, graphVars, pc, current_delay,
                    consecutive_failures, acs_loaded_checked, fresh_start_offset,
                    begin_offset, stream_pos, pending_queries, updates_in_batch,
                    obs >>

(***************************************************************************)
(* The ledger commits one more update.                                     *)
(***************************************************************************)
LedgerAppend ==
    /\ Len(ledger) < MaxOffset
    /\ ledger' = Append(ledger, UpdateAt(Len(ledger) + 1))
    /\ UNCHANGED << tokenVars, projVars, cfgVars, pruned, graphVars, pc, current_delay,
                    consecutive_failures, acs_loaded_checked, fresh_start_offset,
                    begin_offset, writerVars, obs >>

Next ==
    \/ SupGetToken
    \/ SupOffset
    \/ SupAcs
    \/ SupOpen
    \/ WriterReceive
    \/ WriterStreamEnd
    \/ WriterTimeout
    \/ Tick
    \/ LedgerAppend

Spec == Init /\ [][Next]_vars

(***************************************************************************)
(* Liveness: time passes, and a writer whose timeout has expired is        *)
(* resumed by the runtime (graph.rs:83); the supervisor task is scheduled  *)
(* and each of its awaited calls and sleeps returns.  Nothing is assumed   *)
(* about the ledger, the graph store or the token source answering Ok.     *)
(***************************************************************************)
SpecLive ==
    /\ Init /\ [][Next]_vars
    /\ WF_vars(Tick) /\ WF_vars(WriterTimeout)
    /\ WF_vars(SupGetToken) /\ WF_vars(SupOffset)
    /\ WF_vars(SupAcs) /\ WF_vars(SupOpen)

TypeOK ==
    /\ pc \in {"token", "offset", "acs", "open", "stream"}
    /\ current_delay \in InitialDelay .. MaxDelay
    /\ updates_in_batch \in 0 .. BatchSize

(***************************************************************************)
(* The token manager on its own: the synchronizer stays in one initial     *)
(* state while the tasks call the token manager.                           *)
(***************************************************************************)
InitToken ==
    /\ Init
    /\ ~fresh /\ starting_offset = None /\ ledger = << >> /\ graph_acs = 0

NextToken ==
    \/ \E t \in Tasks : TmCall(t)
    \/ \E t \in Tasks : TmReadCheck(t)
    \/ \E t \in Tasks : TmWriteCheck(t)
    \/ \E t \in Tasks : TmFetchDone(t)
    \/ \E t \in Tasks : TmReturn(t)
    \/ TmTick

SpecToken == InitToken /\ [][NextToken]_vars

(***************************************************************************)
(* The supervisor and the background refresh task on one token manager     *)
(* (sync.rs:208-213).  The supervisor is reduced to its use of the token:  *)
(* get_token at the top of the loop, the ACS load and the stream open that *)
(* present the token to the ledger, and the end of the stream.  The ledger *)
(* validates the token by itself: whether it accepts it is an input.       *)
(***************************************************************************)
SupTask == 1
BgTask == 2

\* whole seconds of lifetime.mul_f64(renewal_threshold); the lifetimes of
\* the model are multiples of RenewalDen
threshold_duration(e) == (e * RenewalNum) \div RenewalDen

\* jwt.rs:456-464  time_until_refresh
time_until_refresh(state, now) ==
    IF state = None THEN None
    ELSE LET s == Val(state)
         IN  Some(Max(threshold_duration(s.expires_in_secs) - (now - s.obtained_at), 0))

\* a task that sleeps for the time until the refresh also when it is zero
sleep_duration_unguarded(d) == IF d = None THEN BgRetrySecs ELSE Val(d)

\* jwt.rs:472-475  Some(d) if d > ZERO => d, _ => from_secs(60)
sleep_duration(d) == IF d # None /\ Val(d) > 0 THEN Val(d) ELSE BgRetrySecs

\* jwt.rs:472-482  the top of the loop: compute the sleep and go to sleep
BgSleep ==
    /\ bpc = "top"
    /\ tm_writer = None
    /\ bg_wake' = tm_now + sleep_duration(time_until_refresh(tm_state, tm_now))
    /\ bpc' = "sleep"
    /\ UNCHANGED << syncVars, tm_source, tm_state, tm_writer, tm_now, tm_issued,
                    tm_fetches, tm_failed, tpc, tkind, tresult, tm_resp,
                    sup_token, stream_token, rejected >>

\* jwt.rs:482-485  the sleep is over: call refresh_token
BgWake ==
    /\ bpc = "sleep"
    /\ tm_now >= bg_wake
    /\ bpc' = "refresh"
    /\ bg_wake' = 0
    /\ tpc' = [tpc EXCEPT ![BgTask] = "lock"]
    /\ tkind' = [tkind EXCEPT ![BgTask] = "refresh_token"]
    /\ tresult' = [tresult EXCEPT ![BgTask] = NoResult]
    /\ UNCHANGED << syncVars, tm_source, tm_state, tm_writer, tm_now, tm_issued,
                    tm_fetches, tm_failed, tm_resp,
                    sup_token, stream_token, rejected >>

\* jwt.rs:485-489  refresh_token returned Ok or Err: log, next iteration
BgDone ==
    /\ bpc = "refresh"
    /\ tpc[BgTask] = "done"
    /\ bpc' = "top"
    /\ tpc' = [tpc EXCEPT ![BgTask] = "idle"]
    /\ UNCHANGED << syncVars, tm_source, tm_state, tm_writer, tm_now, tm_issued,
                    tm_fetches, tm_failed, tkind, tresult, tm_resp,
                    sup_token, stream_token, rejected, bg_wake >>

\* the sync variables the reduced supervisor leaves alone
authFrozen == << projVars, cfgVars, ledgerVars, graphVars, fresh_start_offset,
                 begin_offset, writerVars, obs >>

\* sync.rs:298  token_manager.get_token() is called
AuthSupCall ==
    /\ pc = "token"
    /\ tpc[SupTask] = "idle"
    /\ tpc' = [tpc EXCEPT ![SupTask] = "read"]
    /\ tkind' = [tkind EXCEPT ![SupTask] = "get_token"]
    /\ tresult' = [tresult EXCEPT ![SupTask] = NoResult]
    /\ UNCHANGED << authFrozen, pc, current_delay, consecutive_failures,
                    acs_loaded_checked, tm_source, tm_state, tm_writer, tm_now,
                    tm_issued, tm_fetches, tm_failed, tm_resp, authVars >>

\* sync.rs:298-309  get_token returned: Ok(t) => t, Err => sleep, back off,
\* continue.  The offset decision that follows (sync.rs:312-376) is part of
\* the step.
AuthSupGot ==
    /\ pc = "token"
    /\ tpc[SupTask] = "done"
    /\ tpc' = [tpc EXCEPT ![SupTask] = "idle"]
    /\ IF tresult[SupTask].tag = "ok"
       THEN /\ sup_token' = Some(tresult[SupTask].token)
            /\ pc' = "acs"
            /\ UNCHANGED current_delay
       ELSE /\ Backoff
            /\ UNCHANGED sup_token
    /\ UNCHANGED << authFrozen, consecutive_failures, acs_loaded_checked,
                    tm_source, tm_state, tm_writer, tm_now, tm_issued, tm_fetches,
                    tm_failed, tkind, tresult, tm_resp,
                    stream_token, rejected, bpc, bg_wake >>

\* what the ledger answers to a call that carries the token
LedgerAnswers == {"ok", "rejected", "failed"}

\* the token of the iteration, remembered when the ledger rejected it
Rejected(answer, token) == IF answer = "rejected" THEN token ELSE None

\* sync.rs:378-442  the ACS load with &token (sync.rs:397, 423)
AuthSupAcs ==
    /\ pc = "acs"
    /\ IF acs_loaded_checked
       THEN /\ pc' = "open"
            /\ UNCHANGED << acs_loaded_checked, current_delay, rejected >>
       ELSE \E answer \in LedgerAnswers :
               /\ rejected' = Rejected(answer, sup_token)
               /\ pc' = AfterAcsLoad(answer = "ok")
               /\ IF answer = "ok"
                  THEN /\ acs_loaded_checked' = TRUE
                       /\ UNCHANGED current_delay
                  ELSE /\ current_delay' = NextDelay(current_delay)
                       /\ UNCHANGED acs_loaded_checked
    /\ UNCHANGED << authFrozen, consecutive_failures, tm_source, tm_state,
                    tm_writer, tm_now, tm_issued, tm_fetches, tm_failed, tpc,
                    tkind, tresult, tm_resp, sup_token, stream_token, bpc,
                    bg_wake >>

\* a stream that follows the token manager's cache
StreamToken_cached(token, state) ==
    IF state = None THEN token ELSE Some(Val(state).token)

\* sync.rs:447-453  stream_updates(Some(&token), ...): the stream carries
\* the token of the iteration
StreamToken(token, state) == token

\* sync.rs:446-473  the stream open with Some(&token)
AuthSupOpen ==
    /\ pc = "open"
    /\ \E answer \in LedgerAnswers :
          /\ rejected' = Rejected(answer, sup_token)
          /\ IF answer = "ok"
             THEN /\ current_delay' = InitialDelay
                  /\ consecutive_failures' = 0
                  /\ pc' = "stream"
                  /\ stream_token' = StreamToken(sup_token, tm_state)
             ELSE /\ consecutive_failures < MaxFailures
                  /\ ReturnErr(consecutive_failures, current_delay)
                  /\ UNCHANGED stream_token
    /\ UNCHANGED << authFrozen, acs_loaded_checked, tm_source, tm_state,
                    tm_writer, tm_now, tm_issued, tm_fetches, tm_failed, tpc,
                    tkind, tresult, tm_resp, sup_token, bpc, bg_wake >>

\* sync.rs:501-531  the stream ended and the writer returned Ok or Err
AuthStreamEnd ==
    /\ pc = "stream"
    /\ \/ ReturnOk
       \/ ReturnErr(consecutive_failures, current_delay)
    /\ UNCHANGED << authFrozen, acs_loaded_checked, tokenVars >>

InitAuth ==
    /\ SyncInit
    /\ ~fresh /\ starting_offset = None /\ ledger = << >> /\ graph_acs = 0
    /\ \E src \in TokenSources : TmNew(src)
    /\ AuthInit
    /\ ProjInit
    /\ FnIdle

NextAuth ==
    \/ AuthSupCall
    \/ AuthSupGot
    \/ AuthSupAcs
    \/ AuthSupOpen
    \/ AuthStreamEnd
    \/ BgSleep
    \/ BgWake
    \/ BgDone
    \/ \E t \in Tasks : TmReadCheck(t)
    \/ \E t \in Tasks : TmWriteCheck(t)
    \/ \E t \in Tasks : TmFetchDone(t)
    \/ TmTick

SpecAuth == InitAuth /\ [][NextAuth]_vars

(***************************************************************************)
(* The projection in full (cypher.rs:81-427, client utils.rs:58-112) and   *)
(* the graph its statements are run against.                               *)
(*                                                                         *)
(* An event is a record                                                    *)
(*   [kind, node_id, last_descendant_node_id, contract_id, consuming,      *)
(*    parties]                                                             *)
(* where parties holds the signatories of a Created event and the          *)
(* acting_parties of an Exercised event; a transaction is                  *)
(* [offset, events], its events in the order the ledger sends them         *)
(* (ascending node_id).  Every event carries the offset of its             *)
(* transaction.                                                            *)
(***************************************************************************)
\* the id of the contract created by the event node_id n of the transaction
\* at offset o: contract ids are unique on the ledger
ContractOf(o, n) == o * 10 + n

\* a property a node does not have
NoProp == -2

\* ---- the transactions the ledger may hold ------------------------------
\* the signatories of the contract created at node n
SignatoriesAt(n) == IF n = 0 THEN {"Alice"} ELSE {"Alice", "Bob"}

CreatedEvent(o, n) ==
    [kind |-> "Created", node_id |-> n, last_descendant_node_id |-> n,
     contract_id |-> ContractOf(o, n), consuming |-> FALSE,
     parties |-> SignatoriesAt(n)]

\* the choices the ledger exercises: an archive of the contract created by
\* the transaction at offset 1, done by Alice, or a non-consuming choice of
\* Bob on the contract of node 0 of the same transaction (a contract the
\* graph may never see when node 0 is no Created event)
ChoiceKinds == {"archive", "touch"}

ExercisedEvent(o, n, last, choice) ==
    [kind |-> "Exercised", node_id |-> n, last_descendant_node_id |-> last,
     contract_id |-> IF choice = "archive" THEN ContractOf(1, 0)
                     ELSE ContractOf(o, 0),
     consuming |-> (choice = "archive"),
     parties |-> IF choice = "archive" THEN {"Alice"} ELSE {"Bob"}]

\* what node id n of a transaction may be: no event the reader sees, a
\* Created event or an Exercised event
SlotChoices(o, n) ==
    {[kind |-> "absent"]}
      \cup {CreatedEvent(o, n)}
      \cup { ExercisedEvent(o, n, last, c) : last \in n .. MaxNodeId,
                                              c \in ChoiceKinds }

RECURSIVE EventsFrom(_, _)
EventsFrom(slots, n) ==
    IF n > MaxNodeId THEN << >>
    ELSE (IF slots[n].kind = "absent" THEN << >> ELSE << slots[n] >>)
           \o EventsFrom(slots, n + 1)

\* a is an ancestor of b (spec: A.node_id <= B.node_id <=
\* A.last_descendant_node_id, for two different events)
IsAncestor(a, b) ==
    a.node_id < b.node_id /\ b.node_id <= a.last_descendant_node_id

\* the tree invariant of the Ledger API: the descendant ranges of two events
\* are nested or disjoint
TreeInvariant(evs) ==
    \A i, j \in DOMAIN evs :
        (evs[i].node_id < evs[j].node_id
           /\ evs[j].node_id <= evs[i].last_descendant_node_id)
        => evs[j].last_descendant_node_id <= evs[i].last_descendant_node_id

\* a contract is archived at most once
ArchivedOnce(evs) ==
    \A i, j \in DOMAIN evs :
        (evs[i].consuming /\ evs[j].consuming
           /\ evs[i].contract_id = evs[j].contract_id) => i = j

TransactionsAt(o) ==
    { [offset |-> o, events |-> EventsFrom(slots, 0)] :
        slots \in { f \in [0 .. MaxNodeId -> UNION { SlotChoices(o, n) : n \in 0 .. MaxNodeId }] :
                      /\ \A n \in 0 .. MaxNodeId : f[n] \in SlotChoices(o, n)
                      /\ TreeInvariant(EventsFrom(f, 0))
                      /\ ArchivedOnce(EventsFrom(f, 0)) } }

\* the transaction at offset 1 creates one contract, signed by Alice
FirstTransaction == [offset |-> 1, events |-> << CreatedEvent(1, 0) >>]

\* the ledgers of the projection runs: the first transaction followed by
\* any transaction at offset 2
Ledgers == { << FirstTransaction, tx >> : tx \in TransactionsAt(2) }

\* ---- client utils.rs ----------------------------------------------------
\* the match arms Some(Event::Created(..)) and Some(Event::Exercised(..));
\* an event with no variant set falls to `_ => {}`
HasVariant(e) == e.kind \in {"Created", "Exercised"}

\* utils.rs:58-82  one marker per Created or Exercised event
structure_markers_from_transaction(tx) ==
    LET evs == SelectSeq(tx.events, HasVariant)
    IN  [i \in DOMAIN evs |->
            [offset |-> tx.offset, node_id |-> evs[i].node_id,
             last_descendant_node_id |-> evs[i].last_descendant_node_id]]

\* utils.rs:86-87  sorted.sort_by_key(|m| m.node_id)
RECURSIVE InsertByNodeId(_, _)
InsertByNodeId(sorted, m) ==
    IF sorted = << >> THEN << m >>
    ELSE IF sorted[Len(sorted)].node_id <= m.node_id THEN Append(sorted, m)
    ELSE Append(InsertByNodeId(SubSeq(sorted, 1, Len(sorted) - 1), m),
                sorted[Len(sorted)])

RECURSIVE SortByNodeId(_)
SortByNodeId(ms) ==
    IF ms = << >> THEN << >>
    ELSE InsertByNodeId(SortByNodeId(SubSeq(ms, 1, Len(ms) - 1)), ms[Len(ms)])

\* a test that also unwinds a parent whose last descendant is the marker
Finished_inclusive(top, node_id) == top.last_descendant_node_id <= node_id

\* utils.rs:95  top.2 < marker.node_id: the top's subtree ended before the
\* marker
Finished(top, node_id) == top.last_descendant_node_id < node_id

\* utils.rs:94-100  pop while the top's subtree ended before the marker
RECURSIVE PopFinished(_, _)
PopFinished(stack, node_id) ==
    IF stack # << >> /\ Finished(stack[Len(stack)], node_id)
    THEN PopFinished(SubSeq(stack, 1, Len(stack) - 1), node_id)
    ELSE stack

\* utils.rs:92-109  the loop over the sorted markers, from marker i on
RECURSIVE ExtractLoop(_, _, _)
ExtractLoop(sorted, i, stack) ==
    IF i > Len(sorted) THEN << >>
    ELSE LET marker == sorted[i]
             st == PopFinished(stack, marker.node_id)
             edge == IF st # << >>
                     THEN << << marker.offset, st[Len(st)].node_id,
                                marker.node_id >> >>
                     ELSE << >>
         IN  edge \o ExtractLoop(sorted, i + 1, Append(st, marker))

\* utils.rs:84-112
extract_edges(markers) == ExtractLoop(SortByNodeId(markers), 1, << >>)

\* ---- cypher.rs: the statements of one transaction ------------------------
Range(seq) == { seq[i] : i \in DOMAIN seq }

EventsOfKind(tx, k) == { e \in Range(tx.events) : e.kind = k }

\* cypher.rs:285-287
TxEdges(tx) == Range(extract_edges(structure_markers_from_transaction(tx)))

\* cypher.rs:348  the node ids that are the child of an edge
child_node_ids(tx) == { e[3] : e \in TxEdges(tx) }

\* cypher.rs:355-378  events that are the child of no edge
RootEvents(tx) ==
    { e \in { x \in Range(tx.events) : HasVariant(x) } :
        e.node_id \notin child_node_ids(tx) }

\* a projection that takes the parties of every event
requesting_parties_all(tx) == UNION { e.parties : e \in Range(tx.events) }

\* cypher.rs:353-378  acting_parties of the root Exercised events and
\* signatories of the root Created events
requesting_parties(tx) == UNION { e.parties : e \in RootEvents(tx) }

\* a projection that emits CONSUMES for every Exercised event
consumes_rels_all(tx) ==
    { [offset |-> tx.offset, node_id |-> e.node_id,
       target_contract_id |-> e.contract_id] : e \in EventsOfKind(tx, "Exercised") }

\* cypher.rs:317-323  consumes_rels: the consuming Exercised events
consumes_rels(tx) ==
    { [offset |-> tx.offset, node_id |-> e.node_id,
       target_contract_id |-> e.contract_id] :
         e \in { x \in EventsOfKind(tx, "Exercised") : x.consuming } }

\* cypher.rs:312-316  target_rels: every Exercised event
target_rels(tx) ==
    { [offset |-> tx.offset, node_id |-> e.node_id,
       target_contract_id |-> e.contract_id] : e \in EventsOfKind(tx, "Exercised") }

\* a statement is emitted only when it has rows (cypher.rs:247, 288, 327,
\* 337, 381, 392, 403)
StmtIf(name, o, rows) ==
    IF rows = {} THEN << >>
    ELSE << [stmt |-> name, offset |-> o, rows |-> rows] >>

\* cypher.rs:81-427  the statements of a Transaction, in the order they are
\* pushed; the rows of an UNWIND are pairwise different, so they are a set
ProjectTransaction(tx) ==
    LET o == tx.offset
    IN  << [stmt |-> "CreateTransaction", offset |-> o, rows |-> {}] >>
        \o StmtIf("CreateCreated", o,
                  { [contract_id |-> e.contract_id, offset |-> o,
                     node_id |-> e.node_id] : e \in EventsOfKind(tx, "Created") })
        \o StmtIf("CreateExercised", o,
                  { [offset |-> o, node_id |-> e.node_id] :
                       e \in EventsOfKind(tx, "Exercised") })
        \o StmtIf("Consequence", o,
                  { [offset |-> e[1], parent_id |-> e[2], child_id |-> e[3]] :
                       e \in TxEdges(tx) })
        \o StmtIf("Target", o, target_rels(tx))
        \o StmtIf("Consumes", o, consumes_rels(tx))
        \o StmtIf("ActionExercised", o,
                  { [offset |-> o, node_id |-> e.node_id] :
                       e \in { x \in RootEvents(tx) : x.kind = "Exercised" } })
        \o StmtIf("ActionCreated", o,
                  { [offset |-> o, node_id |-> e.node_id] :
                       e \in { x \in RootEvents(tx) : x.kind = "Created" } })
        \o StmtIf("MergeParty", o,
                  { [party_id |-> p, offset |-> o] : p \in requesting_parties(tx) })
        \o StmtIf("Requested", o,
                  { [party_id |-> p, offset |-> o] : p \in requesting_parties(tx) })

\* cypher.rs:432-496  created_event_to_cypher: the statement of one contract
\* of the ACS
created_event_to_cypher(cid) ==
    [stmt |-> "MergeCreated", offset |-> -1, rows |-> {[contract_id |-> cid]}]

\* ---- the graph: what the statements do when they run ---------------------
\* A node is a record of its label and properties; `copy` tells apart nodes
\* that agree in all of them.  graph_edges maps a relationship
\* [type, src, dst] to the number of relationships of that type between
\* the two nodes.
Node(label, o, n, cid, party, acs) ==
    [label |-> label, offset |-> o, node_id |-> n, contract_id |-> cid,
     party_id |-> party, from_acs |-> acs, copy |-> 1]

\* CREATE: a new node, whatever the graph holds
NewNode(nodes, n) ==
    [n EXCEPT !.copy = 1 + Cardinality({ m \in nodes : [m EXCEPT !.copy = 1] = n })]

NoEdges == [e \in {} |-> 0]

EdgeCount(edges, e) == IF e \in DOMAIN edges THEN edges[e] ELSE 0

\* CREATE of one relationship for every pair of pairs
AddEdges(edges, type, pairs) ==
    LET new == { [type |-> type, src |-> p[1], dst |-> p[2]] : p \in pairs }
    IN  [e \in DOMAIN edges \cup new |->
            EdgeCount(edges, e) + (IF e \in new THEN 1 ELSE 0)]

\* MATCH (a ...), (b ...): the pairs of nodes one row matches
MatchPairs(srcs, dsts) == srcs \X dsts

WithLabel(nodes, l) == { n \in nodes : n.label = l }

\* a MERGE that looks for its contract among the ACS nodes only
UnmatchedContracts_acs_only(nodes, rows) ==
    { x \in rows : ~\E n \in WithLabel(nodes, "Created") :
                       n.from_acs /\ n.contract_id = x.contract_id }
\* cypher.rs:471-474  MERGE (c:Created {contract_id: $contract_id}): the rows
\* for which no Created node, ACS-sourced or streamed, has the contract_id
UnmatchedContracts(nodes, rows) ==
    { x \in rows : ~\E n \in WithLabel(nodes, "Created") :
                       n.contract_id = x.contract_id }

\* the effect of one statement on the graph g = [nodes, edges]
RunQuery(g, q) ==
    LET N == g.nodes
        ev(l, r) == { n \in WithLabel(N, l) :
                        n.offset = r.offset /\ n.node_id = r.node_id }
        tx(o) == { n \in WithLabel(N, "Transaction") : n.offset = o }
    IN
    CASE q.stmt = "CreateTransaction" ->
           [g EXCEPT !.nodes = N \cup
              {NewNode(N, Node("Transaction", q.offset, NoProp, NoProp, "", FALSE))}]
      [] q.stmt = "CreateCreated" ->
           [g EXCEPT !.nodes = N \cup
              { NewNode(N, Node("Created", r.offset, r.node_id, r.contract_id,
                                "", FALSE)) : r \in q.rows }]
      [] q.stmt = "CreateExercised" ->
           [g EXCEPT !.nodes = N \cup
              { NewNode(N, Node("Exercised", r.offset, r.node_id, NoProp,
                                "", FALSE)) : r \in q.rows }]
      [] q.stmt = "Consequence" ->
           \* the pattern names no label: any node with the two properties
           [g EXCEPT !.edges = AddEdges(@, "CONSEQUENCE",
              UNION { MatchPairs(
                        { n \in N : n.offset = r.offset /\ n.node_id = r.parent_id },
                        { n \in N : n.offset = r.offset /\ n.node_id = r.child_id })
                      : r \in q.rows })]
      [] q.stmt \in {"Target", "Consumes"} ->
           [g EXCEPT !.edges = AddEdges(@,
              IF q.stmt = "Target" THEN "TARGET" ELSE "CONSUMES",
              UNION { MatchPairs(
                        ev("Exercised", r),
                        { n \in WithLabel(N, "Created") :
                            n.contract_id = r.target_contract_id })
                      : r \in q.rows })]
      [] q.stmt = "ActionExercised" ->
           [g EXCEPT !.edges = AddEdges(@, "ACTION",
              UNION { MatchPairs(tx(r.offset), ev("Exercised", r)) : r \in q.rows })]
      [] q.stmt = "ActionCreated" ->
           [g EXCEPT !.edges = AddEdges(@, "ACTION",
              UNION { MatchPairs(tx(r.offset), ev("Created", r)) : r \in q.rows })]
      [] q.stmt = "MergeParty" ->
           \* MERGE: a node is created only where none matches
           [g EXCEPT !.nodes = N \cup
              { Node("Party", NoProp, NoProp, NoProp, r.party_id, FALSE) :
                  r \in { x \in q.rows :
                            ~\E n \in WithLabel(N, "Party") : n.party_id = x.party_id } }]
      [] q.stmt = "Requested" ->
           [g EXCEPT !.edges = AddEdges(@, "REQUESTED",
              UNION { MatchPairs(
                        { n \in WithLabel(N, "Party") : n.party_id = r.party_id },
                        tx(r.offset))
                      : r \in q.rows })]
      [] q.stmt = "MergeCreated" ->
           \* MERGE (c:Created {contract_id}) ON CREATE SET offset = -1,
           \* node_id = 0, from_acs = true
           [g EXCEPT !.nodes = N \cup
              { Node("Created", -1, 0, r.contract_id, "", TRUE) :
                  r \in UnmatchedContracts(N, q.rows) }]

\* the statements of a batch run in the order they were collected
RECURSIVE RunQueries(_, _)
\* a writer that runs the statements of a batch last to first
RunQueries_reversed(g, qs) ==
    IF qs = << >> THEN g
    ELSE RunQuery(RunQueries(g, Tail(qs)), Head(qs))
RunQueries(g, qs) ==
    IF qs = << >> THEN g
    ELSE RunQueries(RunQuery(g, Head(qs)), Tail(qs))

TheGraph == [nodes |-> graph_nodes, edges |-> graph_edges]

\* a maximum over all nodes, those of the ACS included
NodesMaxOffset_all(nodes) ==
    LET offs == { n.offset : n \in nodes }
    IN  IF offs = {} THEN None
        ELSE Some(CHOOSE m \in offs : \A o \in offs : o <= m)
\* graph.rs:12-33  the largest offset >= 0 of any node
NodesMaxOffset(nodes) ==
    LET offs == { n.offset : n \in { m \in nodes : m.offset >= 0 } }
    IN  IF offs = {} THEN None
        ELSE Some(CHOOSE m \in offs : \A o \in offs : o <= m)

\* the contracts active at offset a: created at or before a and not archived
\* at or before a
ActiveAt(txs, a) ==
    LET evs(k) == UNION { EventsOfKind(txs[o], k) : o \in { x \in DOMAIN txs : x <= a } }
    IN  { e.contract_id : e \in evs("Created") }
          \ { e.contract_id : e \in { x \in evs("Exercised") : x.consuming } }

RECURSIVE SetToSeq(_)
SetToSeq(S) ==
    IF S = {} THEN << >>
    ELSE LET x == CHOOSE y \in S : \A z \in S : y <= z
         IN  << x >> \o SetToSeq(S \ {x})

\* sync.rs:77-145  load_acs_to_neo4j: one MERGE per active contract
AcsStatements(txs, a) ==
    LET cids == SetToSeq(ActiveAt(txs, a))
    IN  [i \in DOMAIN cids |-> created_event_to_cypher(cids[i])]

\* sync.rs:147-159  the count of Created {from_acs: true} nodes
AcsNodeCount(nodes) ==
    Cardinality({ n \in WithLabel(nodes, "Created") : n.from_acs })

(***************************************************************************)
(* The projection runs: the supervisor in normal mode over a ledger of two *)
(* transactions, with the token taken for granted.  Every update the       *)
(* stream delivers is committed as a batch of its own; the ACS load gets   *)
(* every active contract.                                                  *)
(***************************************************************************)
projFrozen == << cfgVars, ledgerVars, graphVars, current_delay,
                 consecutive_failures, fresh_start_offset, pending_queries,
                 updates_in_batch, batch_elapsed, idle_elapsed,
                 timeout_remaining, transactions, fnVars, tokenVars >>

\* sync.rs:298-375  the token is there; the offset the iteration begins at
ProjOffset ==
    /\ pc = "token"
    /\ \E graphQ \in {"ok", "err"}, pruneQ \in {"ok", "err"} :
          begin_offset' = NormalModeOffset(graphQ, NodesMaxOffset(graph_nodes),
                                           starting_offset, pruneQ, pruned)
    /\ pc' = "acs"
    /\ UNCHANGED << projFrozen, graph_nodes, graph_edges, acs_loaded_checked,
                    stream_pos, obs >>

\* sync.rs:378-441  the ACS step of the iteration
ProjAcs ==
    /\ pc = "acs"
    /\ IF acs_loaded_checked \/ is_acs_loaded(AcsNodeCount(graph_nodes))
       THEN UNCHANGED << graph_nodes, graph_edges >>
       ELSE LET g == RunQueries(TheGraph, AcsStatements(transactions, begin_offset))
            IN  /\ graph_nodes' = g.nodes
                /\ graph_edges' = g.edges
    /\ acs_loaded_checked' = TRUE
    /\ pc' = "open"
    /\ UNCHANGED << projFrozen, begin_offset, stream_pos, obs >>

\* sync.rs:444-473  stream_updates is called and succeeds or fails
ProjOpen ==
    /\ pc = "open"
    /\ obs.opens < MaxOpens
    /\ obs' = [obs EXCEPT !.opens = @ + 1]
    /\ \/ /\ pc' = "stream"
          /\ stream_pos' = begin_offset
       \/ /\ pc' = "token"
          /\ UNCHANGED stream_pos
    /\ UNCHANGED << projFrozen, graph_nodes, graph_edges, acs_loaded_checked,
                    begin_offset >>

\* graph.rs:83-114  the next update arrives, is projected and committed
ProjReceive ==
    /\ pc = "stream"
    /\ stream_pos < Len(transactions)
    /\ LET g == RunQueries(TheGraph, ProjectTransaction(transactions[stream_pos + 1]))
       IN  /\ graph_nodes' = g.nodes
           /\ graph_edges' = g.edges
    /\ stream_pos' = stream_pos + 1
    /\ UNCHANGED << projFrozen, pc, acs_loaded_checked, begin_offset, obs >>

\* sync.rs:501-531  the stream ends and the loop starts over
ProjStreamEnd ==
    /\ pc = "stream"
    /\ pc' = "token"
    /\ UNCHANGED << projFrozen, graph_nodes, graph_edges, acs_loaded_checked,
                    begin_offset, stream_pos, obs >>

InitProj ==
    /\ SyncInit
    /\ ~fresh /\ starting_offset = Some(1) /\ ledger = << >> /\ graph_acs = 0
    /\ TmInit
    /\ AuthInit
    /\ transactions \in Ledgers
    /\ graph_nodes = {}
    /\ graph_edges = NoEdges
    /\ FnIdle

NextProj ==
    \/ ProjOffset
    \/ ProjAcs
    \/ ProjOpen
    \/ ProjReceive
    \/ ProjStreamEnd

SpecProj == InitProj /\ [][NextProj]_vars

(***************************************************************************)
(* The pure functions on their own: extract_contract_ids_from_value        *)
(* (utils.rs) and get_updates_response_to_cypher with the parameters of    *)
(* its statements (cypher.rs).  One input is drawn and the function is     *)
(* called on it up to MaxCalls times.                                      *)
(***************************************************************************)
\* ---- Value (ledger API): sum is the variant that is set, cid the id of a
\* ContractId, elements the values nested directly inside; "Other" stands
\* for the variants without a nested value (Text, Int64, ..., or none set)
ContractIdValue(c) == [sum |-> "ContractId", cid |-> c, elements |-> << >>]
OtherValue == [sum |-> "Other", cid |-> 0, elements |-> << >>]
ListValue(es) == [sum |-> "List", cid |-> 0, elements |-> es]
Wrappers == {"Record", "Optional", "Variant"}
WrapValue(k, v) == [sum |-> k, cid |-> 0, elements |-> << v >>]

LeafValues == {ContractIdValue(1), ContractIdValue(2), OtherValue}
ListLens == 0 .. 2

\* the values nested at most d deep; a list holds at most one element that
\* is not a leaf
RECURSIVE Values(_)
Values(d) ==
    IF d = 0 THEN LeafValues
    ELSE LET sub == Values(d - 1)
         IN  LeafValues
               \cup { ListValue(es) :
                        es \in { f \in UNION { [1 .. n -> sub] : n \in ListLens } :
                                   \A i, j \in DOMAIN f :
                                      (f[i] \notin LeafValues /\ f[j] \notin LeafValues)
                                         => i = j } }
               \cup { WrapValue(k, v) : k \in Wrappers, v \in sub }

FnValues == {None} \cup { Some(v) : v \in Values(MaxDepth) }

RECURSIVE extract_contract_ids_from_value(_), ExtendFromElements(_)
\* utils.rs:17-21  for v in &list.elements { result.extend(..(&Some(v.clone()))) }
ExtendFromElements(elements) ==
    IF elements = << >> THEN << >>
    ELSE extract_contract_ids_from_value(Some(Head(elements)))
           \o ExtendFromElements(Tail(elements))

\* an extraction that also looks inside Record, Optional and Variant
extract_contract_ids_from_value_deep(value) ==
    IF value = None THEN << >>
    ELSE IF Val(value).sum = "ContractId" THEN << Val(value).cid >>
    ELSE ExtendFromElements(Val(value).elements)
\* utils.rs:8-26
extract_contract_ids_from_value(value) ==
    IF value = None THEN << >>
    ELSE LET val == Val(value)
         IN  CASE val.sum = "ContractId" -> << val.cid >>
               [] val.sum = "List" -> ExtendFromElements(val.elements)
               [] OTHER -> << >>

\* ---- the updates a projection is called with -----------------------------
\* a protobuf Timestamp that is not set, one that DateTime::from_timestamp
\* accepts, and one that it rejects
Timestamps == {None, Some("2024-01-01T00:00:00Z"), Some("out_of_range")}

\* an Event whose oneof is not set
UnsetEvent ==
    [kind |-> "Unset", node_id |-> NoProp, last_descendant_node_id |-> NoProp,
     contract_id |-> NoProp, consuming |-> FALSE, parties |-> {},
     template_id |-> None, created_at |-> None, arguments |-> None,
     exercise_result |-> None]

\* the Created event of node n with the optional fields given
FnCreated(o, n, tid, at, args) ==
    [kind |-> "Created", node_id |-> n, last_descendant_node_id |-> n,
     contract_id |-> ContractOf(o, n), consuming |-> FALSE,
     parties |-> {"Alice", "Bob"},
     template_id |-> tid, created_at |-> at, arguments |-> args,
     exercise_result |-> None]

\* the Exercised event of node n with the optional fields given
FnExercised(o, n, last, acting, args, res) ==
    [kind |-> "Exercised", node_id |-> n, last_descendant_node_id |-> last,
     contract_id |-> ContractOf(1, 0), consuming |-> FALSE,
     parties |-> acting,
     template_id |-> Some("Main.Iou"), created_at |-> None, arguments |-> args,
     exercise_result |-> res]

\* the events the slot of node n can hold
FnSlot(o, n) ==
    {UnsetEvent}
      \cup { FnCreated(o, n, Some("Main.Iou"), Some("2024-01-01T00:00:00Z"), Some("{}")),
             FnCreated(o, n, Some("Main.Iou"), Some("out_of_range"), None),
             FnCreated(o, n, None, None, None) }
      \cup { FnExercised(o, n, last, {"Alice"}, Some("{}"),
                         Some(ListValue(<< ContractIdValue(2), ContractIdValue(1) >>))) :
               last \in {n, MaxEvents - 1} }
      \cup { FnExercised(o, n, last, {"Alice", "Bob"}, None, None) :
               last \in {n, MaxEvents - 1} }

FnTransactions(o) ==
    { [kind |-> "Transaction", offset |-> o, events |-> evs, effective_at |-> at] :
        evs \in UNION { { f \in [1 .. n -> UNION { FnSlot(o, k) : k \in 0 .. MaxEvents - 1 }] :
                            \A i \in 1 .. n : f[i] \in FnSlot(o, i - 1) } :
                        n \in 0 .. MaxEvents },
        at \in Timestamps }

\* GetUpdatesResponse.update: not set, or one of the four variants
FnUpdates ==
    {NoUpdate}
      \cup { [kind |-> k, offset |-> 2, events |-> << >>, effective_at |-> None] :
               k \in {"Reassignment", "OffsetCheckpoint", "TopologyTransaction"} }
      \cup FnTransactions(2)

\* ---- cypher.rs: the statements with their parameters ---------------------
\* a projection that treats every update as a Transaction
TransactionOf_any(u) == Some(u)
\* cypher.rs:84-90  let Some(update) = .. else return; let
\* Update::Transaction(transaction) = update else return
TransactionOf(u) == IF u.kind = "Transaction" THEN Some(u) ELSE None

\* Option::unwrap_or
UnwrapOr(opt, d) == IF opt = None THEN d ELSE Val(opt)

\* a conversion that keeps what the timestamp holds, valid or not
FormatTimestamp_unchecked(ts) == UnwrapOr(ts, "")
\* cypher.rs:95-101, 171-178, 210-217  .and_then(|ts| DateTime::from_timestamp(..)
\* .map(format)).unwrap_or_default(): the empty string without a timestamp
\* and for one that from_timestamp rejects
FormatTimestamp(ts) ==
    IF ts = None \/ ts = Some("out_of_range") THEN "" ELSE Val(ts)

\* cypher.rs:153-198  the row of a Created event
created_row(e, o) ==
    [contract_id |-> e.contract_id,
     template_name |-> UnwrapOr(e.template_id, "unknown"),
     label |-> << UnwrapOr(e.template_id, "unknown"), o >>,
     signatories |-> e.parties,
     offset |-> o,
     node_id |-> e.node_id,
     created_at |-> FormatTimestamp(e.created_at),
     create_arguments |-> UnwrapOr(e.arguments, "null")]

\* cypher.rs:200-241  the row of an Exercised event
exercised_row(e, tx) ==
    [target_contract_id |-> e.contract_id,
     acting_parties |-> e.parties,
     offset |-> tx.offset,
     node_id |-> e.node_id,
     consuming |-> e.consuming,
     result_contract_ids |-> extract_contract_ids_from_value(e.exercise_result),
     last_descendant_node_id |-> e.last_descendant_node_id,
     transaction_effective_at |-> FormatTimestamp(tx.effective_at),
     choice_argument |-> UnwrapOr(e.arguments, "null"),
     choice_argument_json |-> UnwrapOr(e.arguments, "Couldn't convert")]

SeqOfKind(tx, k) ==
    LET IsKind(e) == e.kind = k
    IN  SelectSeq(tx.events, IsKind)

\* the orders in which the elements of a set can come
SeqsOf(S) ==
    { f \in [1 .. Cardinality(S) -> S] : \A i, j \in DOMAIN f : f[i] = f[j] => i = j }

\* cypher.rs:122-424  the parameter array of the statement `name`, in the
\* order of the Vec the code builds; parties is the order in which the
\* HashSet requesting_parties is iterated (cypher.rs:405-408)
ParamsOf(tx, name, parties) ==
    LET o == tx.offset
        created == SeqOfKind(tx, "Created")
        exercised == SeqOfKind(tx, "Exercised")
        consuming == LET Cons(e) == e.consuming IN SelectSeq(exercised, Cons)
        edges == extract_edges(structure_markers_from_transaction(tx))
        IsRoot(e) == e.node_id \notin child_node_ids(tx)
        rel(e) == [offset |-> o, node_id |-> e.node_id,
                   target_contract_id |-> e.contract_id]
        at(e) == [offset |-> o, node_id |-> e.node_id]
        roots(evs) == LET rs == SelectSeq(evs, IsRoot)
                      IN  [i \in DOMAIN rs |-> at(rs[i])]
    IN  CASE name = "CreateTransaction" ->
               << [offset |-> o, effective_at |-> FormatTimestamp(tx.effective_at)] >>
          [] name = "CreateCreated" ->
               [i \in DOMAIN created |-> created_row(created[i], o)]
          [] name = "CreateExercised" ->
               [i \in DOMAIN exercised |-> exercised_row(exercised[i], tx)]
          [] name = "Consequence" ->
               [i \in DOMAIN edges |->
                  [offset |-> edges[i][1], parent_id |-> edges[i][2],
                   child_id |-> edges[i][3]]]
          [] name = "Target" -> [i \in DOMAIN exercised |-> rel(exercised[i])]
          [] name = "Consumes" -> [i \in DOMAIN consuming |-> rel(consuming[i])]
          [] name = "ActionExercised" -> roots(exercised)
          [] name = "ActionCreated" -> roots(created)
          [] OTHER -> \* the Party MERGE and REQUESTED
               [i \in DOMAIN parties |-> [party_id |-> parties[i], offset |-> o]]

\* cypher.rs:81-427  get_updates_response_to_cypher with the parameters of
\* every statement
ProjectUpdate(u, parties) ==
    IF TransactionOf(u) = None THEN << >>
    ELSE LET tx == Val(TransactionOf(u))
             qs == ProjectTransaction(tx)
         IN  [i \in DOMAIN qs |->
                [stmt |-> qs[i].stmt, offset |-> qs[i].offset,
                 params |-> ParamsOf(tx, qs[i].stmt, parties)]]

fnFrozen == << transactions, graph_nodes, graph_edges, fn_name, fn_update, fn_value,
               cfgVars, ledgerVars, graphVars, pc, current_delay,
               consecutive_failures, acs_loaded_checked, fresh_start_offset,
               begin_offset, writerVars, obs, tokenVars >>

\* sync.rs:497  cypher::get_updates_response_to_cypher(&response); the
\* HashSet of the call iterates in an order of its own
FnProject ==
    /\ fn_name = "get_updates_response_to_cypher"
    /\ Len(fn_calls) < MaxCalls
    /\ \E parties \in SeqsOf(requesting_parties(fn_update)) :
          fn_calls' = Append(fn_calls, ProjectUpdate(fn_update, parties))
    /\ UNCHANGED fnFrozen

\* cypher.rs:235  extract_contract_ids_from_value(&exercised.exercise_result)
FnExtract ==
    /\ fn_name = "extract_contract_ids_from_value"
    /\ Len(fn_calls) < MaxCalls
    /\ fn_calls' = Append(fn_calls, extract_contract_ids_from_value(fn_value))
    /\ UNCHANGED fnFrozen

InitFn ==
    /\ SyncInit
    /\ ~fresh /\ starting_offset = None /\ ledger = << >> /\ graph_acs = 0
    /\ TmInit
    /\ AuthInit
    /\ ProjInit
    /\ fn_calls = << >>
    /\ \/ /\ fn_name = "get_updates_response_to_cypher"
          /\ fn_update \in FnUpdates
          /\ fn_value = None
       \/ /\ fn_name = "extract_contract_ids_from_value"
          /\ fn_update = NoUpdate
          /\ fn_value \in FnValues

NextFn ==
    \/ FnProject
    \/ FnExtract

SpecFn == InitFn /\ [][NextFn]_vars

(***************************************************************************)
(* Properties.                                                             *)
(***************************************************************************)
GraphMax == get_last_processed_offset(graph_stmts)

\* the step of the supervisor that handles the ACS (sync.rs:379-442)
AcsStep == pc = "acs" /\ pc' # "acs"
\* the ACS step called load_acs_to_neo4j
AcsLoadAttempted == AcsStep /\ obs'.acs_iter # None
\* a step of the writer: a received update, the end of the stream, a timeout
\* that flushed
ReceiveStep == pc = "stream" /\ obs'.delivered # obs.delivered
WriterStep ==
    pc = "stream" /\ (pc' # "stream" \/ stream_pos' # stream_pos
                      \/ pending_queries' # pending_queries)

\* C1: at every stream-open attempt begin_exclusive is not lower than the
\* maximum offset over the graph's nodes with offset >= 0.
C1_BeginNotBelowGraphMax ==
    pc = "open" => (GraphMax = None \/ begin_offset >= Val(GraphMax))

\* C2: every Transaction offset delivered past the initial begin_exclusive
\* and not above the graph's max offset is represented by exactly one
\* Transaction node.
C2_ExactlyOneTransactionNode ==
    \A o \in obs.delivered :
       ( /\ obs.initial_begin # None
         /\ o > Val(obs.initial_begin)
         /\ GraphMax # None
         /\ o <= Val(GraphMax)
         /\ ledger[o] = "Transaction" )
       => TxNodes(graph_stmts, o) = 1

\* C3: in normal mode, when the graph answers the max-offset query, the
\* oracle returns the graph's max offset if there is one, else the
\* configured starting_offset if present, else the pruning offset if that
\* query succeeds, else 0.
C3_NormalModePriority ==
    (pc = "acs" /\ ~fresh /\ obs.graph_q = "ok") =>
        CASE GraphMax # None -> begin_offset = Val(GraphMax)
          [] GraphMax = None /\ starting_offset # None ->
                 begin_offset = Val(starting_offset)
          [] GraphMax = None /\ starting_offset = None /\ obs.prune_q = "ok" ->
                 begin_offset = pruned
          [] OTHER -> begin_offset = 0

C3_Witness ==
    /\ pc = "acs" /\ ~fresh /\ obs.graph_q = "ok"
    /\ GraphMax # None /\ starting_offset # None
    /\ Val(GraphMax) # Val(starting_offset)
    /\ begin_offset = Val(GraphMax)

\* C4 as claimed: when the graph max-offset query fails in normal mode the
\* oracle uses the configured starting_offset if present, else the pruning
\* offset, and 0 only if the pruning-offset query fails too.
C4_FailureFallsToConfigured ==
    (pc = "acs" /\ ~fresh /\ obs.graph_q = "err") =>
        IF starting_offset # None THEN begin_offset = Val(starting_offset)
        ELSE IF obs.prune_q = "ok" THEN begin_offset = pruned
        ELSE begin_offset = 0

\* C4 amended: when the graph max-offset query fails in normal mode the
\* oracle does not abort; it asks the ledger for the pruning offset without
\* consulting the configured starting_offset, and uses 0 only if the
\* pruning-offset query fails too.
C4_FailureFallsToPruning ==
    [][ (pc = "offset" /\ ~fresh /\ obs'.graph_q = "err") =>
          /\ pc' = "acs"
          /\ obs'.prune_q \in {"ok", "err"}
          /\ begin_offset' = IF obs'.prune_q = "ok" THEN pruned ELSE 0 ]_vars

C4_Witness ==
    /\ pc = "acs" /\ ~fresh /\ obs.graph_q = "err" /\ obs.prune_q = "ok"
    /\ starting_offset # None
    /\ begin_offset = pruned
    /\ pruned # Val(starting_offset)

C6_AcsBeforeStream ==
    pc \in {"open", "stream"} =>
        /\ acs_loaded_checked
        /\ (obs.acs_completed >= 1 \/ obs.acs_found)
        /\ (pc = "open" /\ obs.acs_iter # None => obs.acs_iter = Some(begin_offset))

C6_Witness ==
    /\ pc = "open"
    /\ obs.acs_iter = Some(begin_offset)
    /\ obs.acs_completed = 1
    /\ begin_offset > 0

\* C7 as claimed: the ACS loader is skipped whenever the graph already
\* contains a Created node with from_acs = true, at most one ACS load
\* completes in a run, and once acs_loaded_checked is true no later
\* iteration checks or loads the ACS.
C7_SkippedWheneverLoaded ==
    [][ /\ (AcsStep /\ graph_acs > 0 => obs'.acs_iter = None)
        /\ obs'.acs_completed <= 1
        /\ (AcsStep /\ acs_loaded_checked =>
               obs'.acs_iter = None /\ obs'.acs_check = "n/a" /\ graph_acs' = graph_acs)
      ]_vars

\* C7 amended: the ACS loader is skipped whenever the is_acs_loaded check
\* succeeds and finds a Created node with from_acs = true (when the check
\* itself fails the loader runs although such a node exists); at most one
\* ACS load completes in a run, and once acs_loaded_checked is true no later
\* iteration checks or loads the ACS.
C7_SkippedWhenCheckFindsAcs ==
    [][ /\ (AcsLoadAttempted => (graph_acs = 0 \/ obs'.acs_check = "err"))
        /\ (AcsStep /\ obs'.acs_check = "true" =>
               obs'.acs_iter = None /\ graph_acs > 0 /\ graph_acs' = graph_acs)
        /\ obs'.acs_completed <= 1
        /\ (AcsStep /\ acs_loaded_checked =>
               /\ obs'.acs_iter = None /\ obs'.acs_check = "n/a"
               /\ graph_acs' = graph_acs /\ pc' = "open")
        /\ (acs_loaded_checked => acs_loaded_checked')
      ]_vars

C7_Witness ==
    /\ pc = "open"
    /\ obs.acs_check = "true"
    /\ obs.acs_iter = None
    /\ graph_acs > 0
    /\ obs.acs_completed = 0

C9_CountTrigger ==
    [][ /\ (pc' = "stream" => updates_in_batch' < BatchSize)
        /\ (ReceiveStep /\ updates_in_batch + 1 >= BatchSize =>
              LET o == stream_pos + 1
                  batch == pending_queries \o get_updates_response_to_cypher(o, ledger[o])
              IN  \/ /\ pc' = "stream"
                     /\ graph_stmts' = graph_stmts \o batch
                     /\ pending_queries' = << >>
                     /\ updates_in_batch' = 0
                     /\ batch_elapsed' = None
                  \/ /\ pc' = "token"
                     /\ graph_stmts' = graph_stmts)
        /\ (ReceiveStep /\ updates_in_batch + 1 < BatchSize =>
              /\ pc' = "stream"
              /\ updates_in_batch' = updates_in_batch + 1
              /\ graph_stmts' = graph_stmts)
      ]_vars

C9_Witness ==
    /\ pc = "stream"
    /\ obs.writer_ev = "received"
    /\ updates_in_batch = 0
    /\ pending_queries = << >>
    /\ stream_pos = begin_offset + BatchSize
    /\ TxNodes(graph_stmts, stream_pos) = 1

\* C10: a pending batch is committed once flush_timeout has elapsed since
\* its first update joined, also when the stream keeps delivering updates:
\* no step of the writer leaves statements pending whose batch is older
\* than flush_timeout.
C10_LatencyTrigger ==
    [][ ( /\ WriterStep
          /\ pending_queries # << >>
          /\ batch_elapsed # None
          /\ Val(batch_elapsed) >= FlushTimeout )
        => pending_queries' = << >> ]_vars

\* a step of the writer's timeout branch that is not the idle return
\* (graph.rs:146-160)
TimeoutStep ==
    /\ pc = "stream"
    /\ timeout_remaining = 0
    /\ idle_elapsed < IdleTimeout
    /\ obs'.writer_ev = "timeout"
    /\ ledger' = ledger
    /\ idle_elapsed' # idle_elapsed + 1

\* C11: when the receive wait times out with a batch in progress
\* (updates_in_batch > 0) the partial batch is committed in full and
\* updates_in_batch and batch_start_time are reset, also when the updates
\* of the batch contributed no statements.
C11_TimeoutFlushResets ==
    [][ (TimeoutStep /\ updates_in_batch > 0) =>
          \/ /\ pc' = "stream"
             /\ graph_stmts' = graph_stmts \o pending_queries
             /\ pending_queries' = << >>
             /\ updates_in_batch' = 0
             /\ batch_elapsed' = None
          \/ /\ pc' = "token"
             /\ graph_stmts' = graph_stmts ]_vars

WriterReturnsOk == pc = "stream" /\ pc' = "token" /\ obs'.ret = "ok"

\* offsets of the Transactions among the updates b+1 .. e of the ledger
TxOffsets(l, b, e) == { o \in (b + 1) .. e : l[o] = "Transaction" }

\* C13: whenever the writer returns successfully the pending buffer is
\* empty, every Transaction it received is in the graph exactly once, and
\* the graph's max offset over non-ACS nodes equals the offset of the last
\* Transaction the writer received.
C13_NothingLostOnReturn ==
    [][ WriterReturnsOk =>
          LET received == TxOffsets(ledger, begin_offset, stream_pos)
          IN  /\ pending_queries' = << >>
              /\ \A o \in received : TxNodes(graph_stmts', o) = 1
              /\ (received # {} =>
                     get_last_processed_offset(graph_stmts')
                        = Some(CHOOSE o \in received : \A q \in received : q <= o))
      ]_vars

IsPrefix(a, b) == Len(a) <= Len(b) /\ SubSeq(b, 1, Len(a)) = a
IsSuffix(a, b) == Len(a) <= Len(b) /\ SubSeq(b, Len(b) - Len(a) + 1, Len(b)) = a

\* C14: the writer preserves delivery order: while it runs, the statements
\* it has committed followed by the pending buffer are the concatenation,
\* in arrival order, of the statement lists of the updates received so far;
\* commits only append to the graph, and after a failed commit the writer
\* commits nothing more.
C14_OrderPreserved ==
    [][ /\ (pc' = "stream" =>
               LET recv == ProjectRange(ledger', begin_offset', stream_pos')
                   n == Len(recv) - Len(pending_queries')
               IN  /\ n >= 0
                   /\ SubSeq(recv, n + 1, Len(recv)) = pending_queries'
                   /\ IsSuffix(SubSeq(recv, 1, n), graph_stmts'))
        /\ (pc = "stream" => IsPrefix(graph_stmts, graph_stmts'))
        /\ (pc = "stream" /\ obs'.ret = "commit_err" =>
               pc' = "token" /\ graph_stmts' = graph_stmts)
        /\ (WriterReturnsOk => graph_stmts' = graph_stmts \o pending_queries)
      ]_vars

C14_Witness ==
    /\ pc = "stream"
    /\ pending_queries # << >>
    /\ Len(ProjectRange(ledger, begin_offset, stream_pos)) > Len(pending_queries)
    /\ Len(graph_stmts) > Len(ProjectRange(ledger, begin_offset, stream_pos))

\* C15: when a batch transaction fails the writer returns an error, the
\* graph is unchanged, nothing of the batch stays pending, and the next
\* stream open of the supervisor starts from the graph's max offset.
C15_FailedBatchRedelivered ==
    [][ /\ (pc = "stream" /\ obs'.ret = "commit_err" =>
               /\ pc' = "token"
               /\ graph_stmts' = graph_stmts
               /\ pending_queries' = << >>
               /\ consecutive_failures' = consecutive_failures + 1)
        /\ (pc' = "open" /\ obs'.ret = "commit_err" =>
               LET graphMax == get_last_processed_offset(graph_stmts')
               IN  graphMax # None => begin_offset' = Val(graphMax))
      ]_vars

\* the stream open of this step succeeded (sync.rs:446-458)
OpenSucceeds == pc = "open" /\ obs'.opens = obs.opens + 1

\* C16: current_delay starts at initial_delay, after k consecutive
\* failures without a successful stream open it is
\* min(initial_delay * 2^k, max_delay), it goes back to initial_delay
\* exactly when a stream open succeeds, and it always lies between
\* initial_delay and max_delay.
C16_Backoff ==
    /\ [](/\ current_delay = Min(InitialDelay * Pow(Multiplier, obs.fails), MaxDelay)
          /\ InitialDelay <= current_delay
          /\ current_delay <= MaxDelay)
    /\ [][ /\ (current_delay' < current_delay => OpenSucceeds)
           /\ (OpenSucceeds /\ pc' = "stream" => current_delay' = InitialDelay)
           /\ (OpenSucceeds /\ pc' = "token" =>
                  current_delay' = NextDelay(InitialDelay))
           /\ (~OpenSucceeds => obs'.fails \in {obs.fails, Failed(obs.fails)}) ]_vars

C16_Witness ==
    /\ pc = "open"
    /\ obs.opens >= 1
    /\ obs.fails = DelaySteps
    /\ current_delay = MaxDelay
    /\ consecutive_failures >= 1

\* a step of the supervisor or of the writer it awaits
SupStep ==
    \/ SupGetToken \/ SupOffset \/ SupAcs \/ SupOpen
    \/ WriterReceive \/ WriterStreamEnd \/ WriterTimeout \/ Tick

\* a step that ends an iteration with a failure
FailStep == pc' = "token" /\ ledger' = ledger /\ ~WriterReturnsOk

\* the run has used up the stream opens explored by the model
OpensExplored == obs.opens >= MaxOpens

\* C17: the supervisor loop has no terminal state: from every place of the
\* loop the supervisor can take a step, every step either advances the
\* iteration or starts a new one, and when failures stop a stream is
\* opened again.
C17_NoTerminalState ==
    /\ []( \/ pc = "open" /\ OpensExplored /\ consecutive_failures >= MaxFailures
           \/ ENABLED <<SupStep>>_vars )
    /\ [][ /\ pc' \in {"token", "offset", "acs", "open", "stream"}
           /\ (pc = "token" => pc' \in {"token", "offset"})
           /\ (pc = "offset" => pc' \in {"offset", "acs", "token"})
           /\ (pc = "acs" => pc' \in {"acs", "open", "token"})
           /\ (pc = "open" => pc' \in {"open", "stream", "token"})
           /\ (pc = "stream" => pc' \in {"stream", "token"}) ]_vars
    /\ ( \/ []<><<FailStep>>_vars
         \/ []<>(pc = "stream")
         \/ <>[]OpensExplored )

C17_Witness ==
    /\ pc = "open"
    /\ obs.opens >= 1
    /\ obs.opens < MaxOpens
    /\ obs.ret = "commit_err"
    /\ obs.fails >= 1

\* a token is cached and its age is below renewal_threshold * expires_in
CachedFresh ==
    /\ tm_state # None
    /\ (tm_now - Val(tm_state).obtained_at) * RenewalDen
          < RenewalNum * Val(tm_state).expires_in_secs

\* C18: a call that finds a cached token younger than
\* renewal_threshold * expires_in returns that token and leaves the token
\* source and the cache alone; the token source is contacted only when no
\* token is cached or the cached one has reached that age.
C18_CachedWhileFresh ==
    [][ \A t \in Tasks :
          /\ (tpc[t] # "fetching" /\ tpc'[t] = "fetching" => ~CachedFresh)
          /\ (tpc[t] \in {"read", "lock"} /\ tpc'[t] # tpc[t] /\ CachedFresh =>
                 /\ tpc'[t] = "done"
                 /\ tresult'[t] = OkResult(Val(tm_state).token)
                 /\ tm_state' = tm_state
                 /\ tm_issued' = tm_issued
                 /\ tm_writer' = tm_writer)
      ]_vars

C18_Witness ==
    /\ tm_issued = 1
    /\ tm_now > Val(tm_state).obtained_at
    /\ \A t \in Tasks :
          tkind[t] = "get_token" /\ tpc[t] = "done" /\ tresult[t] = OkResult(1)

\* tasks with a fetch from the token source in flight
Fetching == { t \in Tasks : tpc[t] = "fetching" }

\* task t returns from its call in this step
Returns(t) == tpc[t] # "done" /\ tpc'[t] = "done"

\* C19 as claimed: at most one fetch is in flight at any time, exactly one
\* fetch is performed for a staleness episode, and every caller returns the
\* token stored by that fetch.
C19_ExactlyOneFetch ==
    /\ [](Cardinality(Fetching) <= 1 /\ tm_fetches <= 1)
    /\ [][ \A t \in Tasks :
             Returns(t) =>
                /\ tm_state' # None
                /\ tresult'[t] = OkResult(Val(tm_state').token) ]_vars

\* C19 amended: at most one fetch is in flight at any time, and it is made
\* under the write lock on a missing or stale token; a fetch that succeeds
\* is the last of its staleness episode and every caller that returns Ok
\* returns the token then stored; a fetch that fails returns the error to
\* its caller, leaves the cache as it was, and the next caller to get the
\* lock fetches again, so an episode has one fetch more than it has failed
\* fetches.
C19_SingleFlight ==
    /\ []( /\ Cardinality(Fetching) <= 1
           /\ \A t \in Fetching : tm_writer = Some(t)
           /\ tm_fetches <= tm_failed + 1
           /\ (Fetching = {} /\ tm_fetches < 2 => tm_fetches = tm_failed) )
    /\ [][ \A t \in Tasks :
             /\ (tpc[t] # "fetching" /\ tpc'[t] = "fetching" =>
                    ~CachedFresh /\ tm_writer = None)
             /\ (Returns(t) /\ tresult'[t].tag = "ok" =>
                    /\ tm_state' # None
                    /\ tresult'[t].token = Val(tm_state').token
                    /\ tm_fetches' = 0)
             /\ (Returns(t) /\ tresult'[t].tag = "err" =>
                    /\ tpc[t] = "fetching"
                    /\ tm_state' = tm_state
                    /\ tm_writer' = None)
             /\ (Returns(t) => tresult'[t].tag \in {"ok", "err"}) ]_vars

C19_Witness ==
    /\ tm_issued = 1
    /\ \E t1, t2 \in Tasks :
          /\ tpc[t1] = "done" /\ tresult[t1] = ErrResult
          /\ tpc[t2] = "done" /\ tresult[t2] = OkResult(1)

\* C20: a failed refresh leaves the cached token state unchanged, and a
\* get_token call that returns while the cached token has not expired
\* returns that token, also between the renewal threshold and the expiry.
C20_OldTokenUntilExpiry ==
    [][ \A t \in Tasks :
          /\ (Returns(t) /\ tresult'[t].tag = "err" => tm_state' = tm_state)
          /\ ( ( /\ tkind[t] = "get_token"
                 /\ Returns(t)
                 /\ tm_state # None
                 /\ tm_state' = tm_state
                 /\ tm_now - Val(tm_state).obtained_at < Val(tm_state).expires_in_secs )
               => tresult'[t] = OkResult(Val(tm_state).token) )
      ]_vars

\* the supervisor's get_token returned a token in this step (sync.rs:298-299)
SupGetsToken == pc = "token" /\ pc' = "acs"

\* C21: when the ledger rejects the token presented by an ACS load or a
\* stream open, the token the supervisor obtains for the retry is not the
\* rejected one but one the identity provider issued after it.
C21_RefreshAfterRejection ==
    [][ (SupGetsToken /\ rejected # None /\ tm_source = "Keycloak") =>
           /\ sup_token' # rejected
           /\ Val(sup_token') > Val(rejected) ]_vars

\* C22: a refresh of the cached token changes neither the place of the
\* supervisor nor the token of the open stream; an iteration keeps the
\* token its get_token call returned, every stream is opened with that
\* token, and get_token returns the token cached when it returns, which is
\* the newest one issued, so the reopen after a refresh uses the new token.
C22_StreamKeepsItsToken ==
    /\ []( tm_state # None /\ tm_source # "Static" =>
              Val(tm_state).token = tm_issued )
    /\ [][ /\ (pc = "stream" /\ pc' = "stream" => stream_token' = stream_token)
           /\ (tm_state' # tm_state =>
                  /\ pc' = pc
                  /\ stream_token' = stream_token
                  /\ sup_token' = sup_token)
           /\ (SupGetsToken =>
                  /\ tkind[SupTask] = "get_token"
                  /\ tresult[SupTask].tag = "ok"
                  /\ sup_token' = Some(tresult[SupTask].token))
           /\ (pc \in {"acs", "open", "stream"} => sup_token' = sup_token)
           /\ (pc = "open" /\ pc' = "stream" =>
                  sup_token # None /\ stream_token' = sup_token)
           /\ (Returns(SupTask) /\ tresult'[SupTask].tag = "ok" =>
                  /\ tm_state' # None
                  /\ tresult'[SupTask].token = Val(tm_state').token)
      ]_vars

C22_Witness ==
    /\ pc = "open"
    /\ stream_token = Some(1)
    /\ sup_token = Some(2)
    /\ tkind[BgTask] = "refresh_token"
    /\ tresult[BgTask] = OkResult(2)
    /\ tresult[SupTask] = OkResult(2)

\* the background task computes its sleep and goes to sleep (jwt.rs:472-482)
BgSleeps == bpc = "top" /\ bpc' = "sleep"

\* the shape of the background task's loop: no place outside the loop, the
\* places follow each other in a circle, the sleep is never zero, and the
\* refresh is called when the sleep is over
BgLoopShape ==
    /\ bpc' \in {"top", "sleep", "refresh"}
    /\ (bpc = "top" => bpc' \in {"top", "sleep"})
    /\ (bpc = "sleep" => bpc' \in {"sleep", "refresh"})
    /\ (bpc = "refresh" => bpc' \in {"refresh", "top"})
    /\ (BgSleeps => bg_wake' > tm_now)
    /\ (bpc = "sleep" /\ bpc' = "refresh" =>
           /\ tm_now >= bg_wake
           /\ tkind'[BgTask] = "refresh_token"
           /\ tpc'[BgTask] = "lock")
    /\ (bpc = "refresh" /\ bpc' = "top" => tresult[BgTask].tag \in {"ok", "err"})

\* C23 as claimed: the background task never leaves its loop; it sleeps
\* until the cached token reaches its renewal threshold and then calls
\* refresh_token; after a failed refresh, or when no token is cached, its
\* next sleep is the fixed 60 seconds.
C23_RetryAfterFixedDelay ==
    [][ /\ BgLoopShape
        /\ (BgSleeps =>
               IF tm_state = None \/ tresult[BgTask].tag = "err"
               THEN bg_wake' = tm_now + BgRetrySecs
               ELSE bg_wake' >= Val(tm_state).obtained_at
                                  + threshold_duration(Val(tm_state).expires_in_secs))
      ]_vars

\* C23 amended: the background task never leaves its loop; each iteration
\* sleeps for the time until the cached token reaches its renewal
\* threshold, or for the fixed 60 seconds when no token is cached or the
\* cached one has reached the threshold, and then calls refresh_token
\* whatever the previous call returned; a failed refresh leaves no fresh
\* token in the cache, so the sleep that follows it is 60 seconds unless
\* another caller has replaced the token in between.
C23_BackgroundLoop ==
    [][ /\ BgLoopShape
        /\ (BgSleeps /\ CachedFresh =>
               bg_wake' = Val(tm_state).obtained_at
                             + threshold_duration(Val(tm_state).expires_in_secs))
        /\ (BgSleeps /\ ~CachedFresh => bg_wake' = tm_now + BgRetrySecs)
        /\ (Returns(BgTask) /\ tresult'[BgTask].tag = "err" =>
               /\ tm_state' = tm_state
               /\ ~CachedFresh')
      ]_vars

C23_Witness ==
    /\ bpc = "sleep"
    /\ tresult[BgTask] = ErrResult
    /\ tm_state # None
    /\ bg_wake = tm_now + BgRetrySecs
    /\ tm_now >= Val(tm_state).obtained_at
                    + threshold_duration(Val(tm_state).expires_in_secs)

\* C24: when the identity provider's success response carries no
\* expires_in, the refresh returns the token, the token is cached, and its
\* renewal threshold lies beyond every instant of the clock.
C24_MissingExpiryAccepted ==
    [][ \A t \in Tasks :
          (tpc[t] = "fetching" /\ Returns(t) /\ tm_resp' = "no_expires_in") =>
             /\ tresult'[t].tag = "ok"
             /\ tm_state' # None
             /\ Val(tm_state').token = tresult'[t].token
             /\ threshold_duration(Val(tm_state').expires_in_secs)
                   > (MaxTime + 1) * TickSecs ]_vars

EventOf(n) ==
    CHOOSE e \in Range(transactions[n.offset].events) : e.node_id = n.node_id

\* the nodes of the events of streamed transactions
EventNodes ==
    { n \in graph_nodes : n.label \in {"Created", "Exercised"} /\ n.offset >= 0 }

HasAncestor(tx, e) == \E a \in Range(tx.events) : IsAncestor(a, e)

RECURSIVE SumCounts(_, _)
SumCounts(edges, es) ==
    IF es = {} THEN 0
    ELSE LET e == CHOOSE x \in es : TRUE
         IN  edges[e] + SumCounts(edges, es \ {e})

\* number of relationships of the given type that end in node n
Incoming(type, n) ==
    SumCounts(graph_edges,
              { e \in DOMAIN graph_edges : e.type = type /\ e.dst = n })

\* number of relationships of the given type that leave node n
Outgoing(type, n) ==
    SumCounts(graph_edges,
              { e \in DOMAIN graph_edges : e.type = type /\ e.src = n })

\* C26: every node of an event of a streamed transaction has exactly one
\* incoming structural relationship: one ACTION and no CONSEQUENCE when the
\* event has no ancestor among the events of its transaction, one
\* CONSEQUENCE and no ACTION when it has one.
C26_OneStructuralEdge ==
    \A n \in EventNodes :
        LET anc == HasAncestor(transactions[n.offset], EventOf(n))
        IN  /\ Incoming("ACTION", n) = (IF anc THEN 0 ELSE 1)
            /\ Incoming("CONSEQUENCE", n) = (IF anc THEN 1 ELSE 0)

\* the orders a sequence can be given in
Orderings(seq) ==
    { [i \in DOMAIN seq |-> seq[f[i]]] :
        f \in { g \in [DOMAIN seq -> DOMAIN seq] :
                  \A i, j \in DOMAIN seq : g[i] = g[j] => i = j } }

\* the immediate-parent relation of a set of markers: (p, c) where p is the
\* ancestor of c with the largest node_id
ImmediateParentEdges(ms) ==
    { << pr[2].offset, pr[1].node_id, pr[2].node_id >> :
        pr \in { x \in Range(ms) \X Range(ms) :
                   /\ IsAncestor(x[1], x[2])
                   /\ \A q \in Range(ms) :
                        IsAncestor(q, x[2]) => q.node_id <= x[1].node_id } }

\* the transaction the stream delivered last
Delivered == transactions[stream_pos]

\* C27: whenever the stream has delivered a transaction, for its markers in
\* every order extract_edges emits exactly the immediate-parent edges, each
\* once; a marker without an ancestor is the child of no edge.
C27_ImmediateParents ==
    (pc = "stream" /\ stream_pos > begin_offset) =>
        \A ms \in Orderings(structure_markers_from_transaction(Delivered)) :
            LET es == extract_edges(ms)
            IN  /\ Range(es) = ImmediateParentEdges(ms)
                /\ Len(es) = Cardinality(Range(es))
                /\ \A m \in Range(ms) :
                      (~\E a \in Range(ms) : IsAncestor(a, m))
                        => ~\E e \in Range(es) : e[3] = m.node_id

\* a transaction whose root has two children, the second of them after the
\* subtree of the first, has been projected and its CONSEQUENCE
\* relationships are in the graph
C27_Witness ==
    /\ pc = "stream"
    /\ stream_pos = 2
    /\ LET es == extract_edges(structure_markers_from_transaction(transactions[2]))
       IN  /\ Len(es) = 2
           /\ es[1][2] = 0 /\ es[2][2] = 0
    /\ \E e \in DOMAIN graph_edges :
          e.type = "CONSEQUENCE" /\ e.dst.node_id = 2 /\ e.src.node_id = 0

\* the parties of the events without an ancestor
RootParties(tx) ==
    UNION { e.parties : e \in { x \in Range(tx.events) : ~HasAncestor(tx, x) } }

\* C28: the parties with a REQUESTED relationship to a Transaction node are
\* the acting parties of its root Exercised events and the signatories of
\* its root Created events, and no others; in the statements of a
\* delivered transaction every party of the REQUESTED statement is in a
\* Party MERGE statement before it.
C28_RequestedParties ==
    /\ \A t \in WithLabel(graph_nodes, "Transaction") :
          { p.party_id : p \in { x \in WithLabel(graph_nodes, "Party") :
                EdgeCount(graph_edges,
                          [type |-> "REQUESTED", src |-> x, dst |-> t]) > 0 } }
            = RootParties(transactions[t.offset])
    /\ (pc = "stream" /\ stream_pos > begin_offset) =>
          LET qs == ProjectTransaction(Delivered)
          IN  \A j \in DOMAIN qs :
                qs[j].stmt = "Requested" =>
                   \A r \in qs[j].rows :
                      \E i \in 1 .. j - 1 :
                         qs[i].stmt = "MergeParty" /\ r \in qs[i].rows

\* scenario S4: Alice archives a contract and the choice creates a contract
\* signed by Alice and Bob; Alice is REQUESTED, Bob is not
C28_Witness ==
    /\ transactions[2].events
         = << ExercisedEvent(2, 0, 1, "archive"), CreatedEvent(2, 1) >>
    /\ \E t \in WithLabel(graph_nodes, "Transaction") :
          /\ t.offset = 2
          /\ \E p \in WithLabel(graph_nodes, "Party") :
                /\ p.party_id = "Alice"
                /\ EdgeCount(graph_edges,
                             [type |-> "REQUESTED", src |-> p, dst |-> t]) > 0
          /\ ~\E p \in WithLabel(graph_nodes, "Party") :
                /\ p.party_id = "Bob"
                /\ EdgeCount(graph_edges,
                             [type |-> "REQUESTED", src |-> p, dst |-> t]) > 0

\* C29: when the batch of a transaction has been committed, every node of
\* each of its Exercised events has a TARGET relationship to every Created
\* node with the event's contract_id, and a CONSUMES relationship to it if
\* and only if the event is consuming; where the graph holds no such
\* Created node the Exercised node is there all the same, with no TARGET
\* and no CONSUMES relationship.
C29_TargetAndConsumes ==
    [][ProjReceive =>
         \A ev \in EventsOfKind(transactions[stream_pos'], "Exercised") :
            LET es == { n \in WithLabel(graph_nodes', "Exercised") :
                          n.offset = stream_pos' /\ n.node_id = ev.node_id }
                cs == { n \in WithLabel(graph_nodes', "Created") :
                          n.contract_id = ev.contract_id }
                cnt(ty, e, c) ==
                    EdgeCount(graph_edges', [type |-> ty, src |-> e, dst |-> c])
            IN  /\ es # {}
                /\ \A e \in es, c \in cs :
                      /\ cnt("TARGET", e, c) >= 1
                      /\ (cnt("CONSUMES", e, c) >= 1) <=> ev.consuming
                /\ \A e \in es, x \in DOMAIN graph_edges' :
                      (x.src = e /\ x.type \in {"TARGET", "CONSUMES"})
                         => x.dst \in cs
       ]_vars

\* a transaction with a consuming exercise of a contract of the graph and an
\* exercise of a contract the graph does not hold has been committed
C29_Witness ==
    /\ \E e \in WithLabel(graph_nodes, "Exercised"),
          c \in WithLabel(graph_nodes, "Created") :
          /\ EventOf(e).consuming
          /\ c.contract_id = EventOf(e).contract_id
          /\ EdgeCount(graph_edges, [type |-> "TARGET", src |-> e, dst |-> c]) = 1
          /\ EdgeCount(graph_edges, [type |-> "CONSUMES", src |-> e, dst |-> c]) = 1
    /\ \E e \in WithLabel(graph_nodes, "Exercised") :
          /\ ~EventOf(e).consuming
          /\ ~\E c \in WithLabel(graph_nodes, "Created") :
                c.contract_id = EventOf(e).contract_id
          /\ Outgoing("TARGET", e) = 0

\* C30: a contract that has a Created node from the ACS has no other
\* Created node.
C30_CreatedUniquePerContract ==
    \A a, b \in WithLabel(graph_nodes, "Created") :
        (a.from_acs /\ a.contract_id = b.contract_id) => a = b

(***************************************************************************)
(* An error element in the update stream                                   *)
(***************************************************************************)
\* the open stream delivers an error element and the writer's input ends
StreamErrors == pc = "stream" /\ pc' # "stream" /\ obs'.writer_ev = "error"

\* C38 as claimed: when the open update stream delivers an error element,
\* everything delivered before it is committed, the writer returns Ok, and
\* the supervisor goes to its next iteration with consecutive_failures and
\* current_delay unchanged.
C38_ErrorElementReturnsOk ==
    [][ StreamErrors =>
          /\ graph_stmts' = graph_stmts \o pending_queries
          /\ obs'.ret = "ok"
          /\ pc' = "token"
          /\ consecutive_failures' = consecutive_failures
          /\ current_delay' = current_delay
      ]_vars

\* C38 amended: an error element ends the writer's input and the writer
\* commits what is pending.  If that commit and the offset query after it
\* succeed, every update delivered before the error is in the graph, the
\* writer returns Ok and the supervisor goes to its next iteration with
\* consecutive_failures = 0 and current_delay = initial_delay, at every
\* stream that ends this way; if the commit fails the pending statements
\* are not in the graph, and in both failure cases the writer returns an
\* error, consecutive_failures is incremented and current_delay grows as
\* after any other failure.
C38_ErrorElementEndsInput ==
    [][ StreamErrors =>
          LET recv == ProjectRange(ledger, begin_offset, stream_pos)
          IN  /\ obs'.ret \in {"ok", "commit_err", "query_err"}
              /\ pending_queries' = << >>
              /\ (obs'.ret # "commit_err" =>
                     /\ graph_stmts' = graph_stmts \o pending_queries
                     /\ IsSuffix(recv, graph_stmts'))
              /\ (obs'.ret = "commit_err" =>
                     /\ pending_queries # << >>
                     /\ graph_stmts' = graph_stmts)
              /\ (obs'.ret = "ok" =>
                     /\ pc' = "token"
                     /\ consecutive_failures' = 0
                     /\ current_delay' = InitialDelay)
              /\ (obs'.ret # "ok" =>
                     /\ consecutive_failures' = consecutive_failures + 1
                     /\ current_delay' = NextDelay(current_delay)
                     /\ current_delay' > InitialDelay)
      ]_vars

\* the second stream in a row ended by an error element, with updates
\* committed by the final commit, and no failure was counted
C38_Witness ==
    /\ pc = "token"
    /\ obs.writer_ev = "error"
    /\ obs.ret = "ok"
    /\ obs.opens = MaxOpens
    /\ obs.fails = 0
    /\ consecutive_failures = 0
    /\ current_delay = InitialDelay
    /\ graph_stmts # << >>

(***************************************************************************)
(* Commits hold whole updates                                              *)
(***************************************************************************)
\* stmts is a concatenation of whole statement lists: every Transaction
\* CREATE is directly followed by the event statements of its offset, and
\* every event statement directly follows its Transaction CREATE
WholeUpdates(stmts) ==
    \A i \in DOMAIN stmts :
        IF stmts[i].stmt = "CreateTransaction"
        THEN /\ i + 1 \in DOMAIN stmts
             /\ stmts[i + 1] = [stmt |-> "CreateEvents", offset |-> stmts[i].offset]
        ELSE /\ i - 1 \in DOMAIN stmts
             /\ stmts[i - 1] = [stmt |-> "CreateTransaction", offset |-> stmts[i].offset]

\* C39: every commit of the writer adds to the graph the complete statement
\* lists of consecutive updates b+1 .. e of the stream, so the graph and the
\* pending buffer always consist of whole statement lists and a Transaction
\* node is never in the graph without the statements of its events.
C39_WholeUpdatesPerCommit ==
    [][ /\ (pc = "stream" /\ graph_stmts' # graph_stmts =>
               \E b, e \in begin_offset .. Len(ledger) :
                   /\ b < e
                   /\ e = IF pc' = "stream" THEN stream_pos' ELSE e
                   /\ graph_stmts' = graph_stmts \o ProjectRange(ledger, b, e))
        /\ WholeUpdates(graph_stmts')
        /\ WholeUpdates(pending_queries')
      ]_vars

\* a commit has just added two whole Transactions to a graph that held some
C39_Witness ==
    /\ pc = "stream"
    /\ pending_queries = << >>
    /\ obs.writer_ev = "received"
    /\ Len(graph_stmts) >= 6
    /\ TxNodes(graph_stmts, stream_pos) = 1

(***************************************************************************)
(* The cached token state as a unit                                        *)
(***************************************************************************)
\* the token states a successful fetch from the source can store now
FreshStates ==
    { [token |-> r.token, obtained_at |-> tm_now,
       expires_in_secs |-> r.expires_in_secs] :
         r \in { q \in { FetchFromSource(tm_source, resp, e, tm_issued) :
                            resp \in Responses, e \in ExpiresIns } : q.ok } }

\* C40: the cached token state changes only in the step in which the fetch
\* of the task holding the write lock succeeds, and then all three fields
\* are those of that fetch and the task returns its token; every token
\* handed to a caller is the token of the state cached at that moment; and
\* while a fetch is in flight no other task passes the read or the write
\* lock or returns from its call.
C40_AtomicTokenState ==
    [][ /\ (tm_state' # tm_state =>
               \E t \in Fetching :
                   /\ tm_writer = Some(t)
                   /\ tm_state' \in { Some(st) : st \in FreshStates }
                   /\ Returns(t)
                   /\ tresult'[t] = OkResult(Val(tm_state').token))
        /\ (\A t \in Tasks :
               Returns(t) /\ tresult'[t].tag = "ok" =>
                   /\ tm_state' # None
                   /\ tresult'[t].token = Val(tm_state').token
                   /\ (t \notin Fetching =>
                          tm_state' = tm_state /\ ~should_refresh(Val(tm_state), tm_now)))
        /\ (\A t \in Tasks \ Fetching :
               Fetching # {} =>
                   /\ ~Returns(t)
                   /\ (tpc[t] \in {"read", "lock"} => tpc'[t] = tpc[t]))
      ]_vars

\* a fetch is in flight over a cached token that has reached its renewal
\* threshold while another get_token caller waits for the read lock, and
\* an earlier fetch has failed
C40_Witness ==
    /\ tm_issued = 1
    /\ tm_state # None
    /\ tm_failed >= 1
    /\ \E t1, t2 \in Tasks :
          /\ tpc[t1] = "fetching" /\ tm_writer = Some(t1)
          /\ tpc[t2] = "read" /\ tkind[t2] = "get_token"

(***************************************************************************)
(* Statement order, and the nodes of the ACS                               *)
(***************************************************************************)
NodeStmts == {"CreateTransaction", "CreateCreated", "CreateExercised"}
RelStmts == {"Consequence", "Target", "Consumes", "ActionExercised", "ActionCreated"}

\* the graph holds a relationship of the type between a node that satisfies
\* S and a node that satisfies D
HasEdge(edges, type, S(_), D(_)) ==
    \E x \in DOMAIN edges : x.type = type /\ edges[x] >= 1 /\ S(x.src) /\ D(x.dst)

\* C33: in the statement list of a delivered Transaction every statement
\* that creates nodes precedes every relationship statement and the Party
\* MERGE precedes REQUESTED; when the batch has been committed every
\* relationship statement has found the nodes of its own transaction: each
\* edge of extract_edges is a CONSEQUENCE relationship, each root event has
\* its ACTION, each Exercised event whose contract the transaction creates
\* has its TARGET, and each requesting party its REQUESTED relationship.
C33_NodesBeforeRelationships ==
    [][(pc = "stream" /\ stream_pos' = stream_pos + 1) =>
         LET tx == transactions[stream_pos']
             o == tx.offset
             IsTx(n) == n.label = "Transaction" /\ n.offset = o
         IN  /\ \A qs \in {ProjectTransaction(tx)} : \A i, j \in DOMAIN qs :
                   /\ (qs[i].stmt \in NodeStmts /\ qs[j].stmt \in RelStmts => i < j)
                   /\ (qs[i].stmt = "MergeParty" /\ qs[j].stmt = "Requested" => i < j)
             /\ \A e \in TxEdges(tx) :
                   LET P(n) == n.offset = o /\ n.node_id = e[2]
                       Ch(n) == n.offset = o /\ n.node_id = e[3]
                   IN  HasEdge(graph_edges', "CONSEQUENCE", P, Ch)
             /\ \A r \in RootEvents(tx) :
                   LET Ev(n) == n.label = r.kind /\ n.offset = o /\ n.node_id = r.node_id
                   IN  HasEdge(graph_edges', "ACTION", IsTx, Ev)
             /\ \A x \in EventsOfKind(tx, "Exercised"), c \in EventsOfKind(tx, "Created") :
                   x.contract_id = c.contract_id =>
                      LET Ex(n) == n.label = "Exercised" /\ n.offset = o
                                      /\ n.node_id = x.node_id
                          Cr(n) == n.label = "Created" /\ n.offset = o
                                      /\ n.node_id = c.node_id
                      IN  HasEdge(graph_edges', "TARGET", Ex, Cr)
             /\ \A p \in requesting_parties(tx) :
                   LET Pa(n) == n.label = "Party" /\ n.party_id = p
                   IN  HasEdge(graph_edges', "REQUESTED", Pa, IsTx)
       ]_vars

\* a transaction whose root creates a contract that an event below it
\* exercises has been committed to a graph that did not hold it, with its
\* CONSEQUENCE, TARGET, ACTION and REQUESTED relationships
C33_Witness ==
    /\ pc = "stream"
    /\ stream_pos = 2
    /\ Cardinality({ n \in WithLabel(graph_nodes, "Transaction") : n.offset = 2 }) = 1
    /\ \A ty \in { "CONSEQUENCE", "TARGET", "ACTION", "REQUESTED" } :
          \E x \in DOMAIN graph_edges :
              x.type = ty /\ x.src.offset \in {2, NoProp} /\ x.dst.offset = 2

\* the offsets a normal-mode iteration can begin at when the graph reports
\* no offset
FallThroughOffsets(so, pruneVal) ==
    { IF so # None THEN Val(so) ELSE pruneVal, pruneVal, 0 }

\* C36: every ACS-sourced node is a Created node with offset -1 and
\* node_id 0; the ACS nodes do not change what get_last_processed_offset
\* reports, which is no offset when the graph holds no node of a streamed
\* transaction; with that answer the oracle yields the configured
\* starting_offset or, without one, the pruning offset, and an iteration
\* that starts on a graph holding ACS nodes only begins at one of them.
C36_AcsNodesOutsideResumePoint ==
    /\ [] /\ \A n \in graph_nodes :
                n.from_acs => n.label = "Created" /\ n.offset = -1 /\ n.node_id = 0
          /\ NodesMaxOffset(graph_nodes)
                = NodesMaxOffset({ n \in graph_nodes : ~n.from_acs })
          /\ ((\A n \in graph_nodes : n.from_acs) =>
                 /\ NodesMaxOffset(graph_nodes) = None
                 /\ \A so \in StartingOffsets, pv \in 0 .. MaxOffset :
                       /\ NormalModeOffset("ok", NodesMaxOffset(graph_nodes), so, "ok", pv)
                             = (IF so # None THEN Val(so) ELSE pv)
                       /\ NormalModeOffset("ok", NodesMaxOffset(graph_nodes), so, "err", pv)
                             = (IF so # None THEN Val(so) ELSE 0))
    /\ [][ (ProjOffset /\ graph_nodes # {} /\ \A n \in graph_nodes : n.from_acs) =>
             begin_offset' \in FallThroughOffsets(starting_offset, pruned) ]_vars

\* the ACS was loaded into the empty graph, the stream could not be opened,
\* and the next iteration begins at the configured starting_offset
C36_Witness ==
    /\ pc = "acs"
    /\ obs.opens >= 1
    /\ graph_nodes # {}
    /\ \A n \in graph_nodes : n.from_acs
    /\ begin_offset = Val(starting_offset)

\* the Created nodes of contract c
CreatedOf(nodes, c) == { n \in WithLabel(nodes, "Created") : n.contract_id = c }

\* C37: on every graph the synchronizer reaches and for the snapshot of the
\* ACS at every offset, the statement of a contract that has a Created node
\* leaves the graph as it is; loading the snapshot keeps every node and
\* relationship, adds one node for each contract without a Created node,
\* and loading it a second time changes nothing.
C37_AcsLoadIdempotent ==
    \A a \in 0 .. Len(transactions) :
        LET qs == AcsStatements(transactions, a)
            once == RunQueries(TheGraph, qs)
            twice == RunQueries(once, qs)
        IN  /\ twice = once
            /\ graph_nodes \subseteq once.nodes
            /\ once.edges = graph_edges
            /\ \A c \in ActiveAt(transactions, a) :
                  /\ (CreatedOf(graph_nodes, c) # {} =>
                         RunQuery(TheGraph, created_event_to_cypher(c)) = TheGraph)
                  /\ Cardinality(CreatedOf(once.nodes, c))
                        = Max(1, Cardinality(CreatedOf(graph_nodes, c)))

\* the graph holds the ACS node of one contract and the streamed Created
\* node of another contract that is active at the end of the ledger
C37_Witness ==
    /\ \E n \in WithLabel(graph_nodes, "Created") : n.from_acs
    /\ \E n \in WithLabel(graph_nodes, "Created") :
          /\ ~n.from_acs
          /\ n.contract_id \in ActiveAt(transactions, Len(transactions))
          /\ CreatedOf(graph_nodes, n.contract_id) = {n}

(***************************************************************************)
(* Properties of the pure functions                                        *)
(***************************************************************************)
Projecting == fn_name = "get_updates_response_to_cypher"
Extracting == fn_name = "extract_contract_ids_from_value"

\* C31: all invocations of get_updates_response_to_cypher on one update
\* return the same statements in the same order with the same parameter
\* arrays, the order of the party entries included.
C31_Deterministic ==
    Projecting => \A i, j \in DOMAIN fn_calls : fn_calls[i] = fn_calls[j]

\* C32: for an update that is not set or is a Reassignment, an
\* OffsetCheckpoint or a TopologyTransaction the projection returns the
\* empty list; for a Transaction the first statement, and no other, is the
\* CREATE of the Transaction node with the transaction's offset, and it is
\* the only statement when the transaction has no Created or Exercised
\* event.
C32_TransactionsOnly ==
    Projecting =>
        \A c \in DOMAIN fn_calls :
            LET r == fn_calls[c]
            IN  IF fn_update.kind = "Transaction"
                THEN /\ Len(r) >= 1
                     /\ r[1].stmt = "CreateTransaction"
                     /\ r[1].offset = fn_update.offset
                     /\ \A j \in 2 .. Len(r) : r[j].stmt # "CreateTransaction"
                     /\ ((\A k \in DOMAIN fn_update.events :
                             fn_update.events[k].kind = "Unset") => Len(r) = 1)
                ELSE r = << >>

\* a Transaction without events was projected to the one CREATE
C32_Witness ==
    /\ Projecting
    /\ fn_update.kind = "Transaction"
    /\ fn_update.events = << >>
    /\ Len(fn_calls) >= 1
    /\ Len(fn_calls[1]) = 1

RECURSIVE Flatten(_)
Flatten(ss) == IF ss = << >> THEN << >> ELSE Head(ss) \o Flatten(Tail(ss))

ParamsIn(r, name) ==
    IF \E i \in DOMAIN r : r[i].stmt = name
    THEN r[CHOOSE i \in DOMAIN r : r[i].stmt = name].params
    ELSE << >>

\* the update without the events that have no variant set
WithoutUnset(u) == [u EXCEPT !.events = SelectSeq(@, HasVariant)]

\* C35: for every Transaction, with events that have no variant set and
\* with template_id, timestamps or arguments missing, the projection
\* returns a statement list that starts with the Transaction CREATE; it is
\* the list of the same transaction without the variant-less events; every
\* Created and every Exercised event has its row, in event order, with
\* "unknown" for a missing template_id, the empty string for a missing or
\* unrepresentable timestamp, "null" for missing arguments and no result
\* contract ids for a missing exercise result.
C35_ProjectionTotal ==
    (Projecting /\ fn_update.kind = "Transaction") =>
        \A c \in DOMAIN fn_calls : \A r \in {fn_calls[c]} :
            LET created == SeqOfKind(fn_update, "Created")
                exercised == SeqOfKind(fn_update, "Exercised")
                crows == ParamsIn(r, "CreateCreated")
                erows == ParamsIn(r, "CreateExercised")
                Text(ts) == IF ts \in {None, Some("out_of_range")} THEN "" ELSE Val(ts)
            IN  /\ Len(r) >= 1
                /\ r[1].params = << [offset |-> fn_update.offset,
                                      effective_at |-> Text(fn_update.effective_at)] >>
                /\ \E parties \in SeqsOf(requesting_parties(fn_update)) :
                       r = ProjectUpdate(WithoutUnset(fn_update), parties)
                /\ Len(crows) = Len(created)
                /\ \A k \in DOMAIN created :
                       LET e == created[k]
                           tn == IF e.template_id = None THEN "unknown"
                                 ELSE Val(e.template_id)
                       IN  /\ crows[k].contract_id = e.contract_id
                           /\ crows[k].node_id = e.node_id
                           /\ crows[k].template_name = tn
                           /\ crows[k].label = << tn, fn_update.offset >>
                           /\ crows[k].created_at = Text(e.created_at)
                           /\ crows[k].create_arguments
                                 = (IF e.arguments = None THEN "null" ELSE Val(e.arguments))
                /\ Len(erows) = Len(exercised)
                /\ \A k \in DOMAIN exercised :
                       LET e == exercised[k]
                       IN  /\ erows[k].node_id = e.node_id
                           /\ erows[k].target_contract_id = e.contract_id
                           /\ erows[k].transaction_effective_at
                                 = Text(fn_update.effective_at)
                           /\ erows[k].choice_argument
                                 = (IF e.arguments = None THEN "null" ELSE Val(e.arguments))
                           /\ (e.exercise_result = None =>
                                  erows[k].result_contract_ids = << >>)

\* a Transaction without effective_at that holds an event with no variant
\* set and a Created event without template_id, created_at and arguments
\* was projected
C35_Witness ==
    /\ Projecting
    /\ fn_update.kind = "Transaction"
    /\ fn_update.effective_at = None
    /\ fn_update.events = << UnsetEvent, FnCreated(2, 1, None, None, None) >>
    /\ Len(fn_calls) >= 1
    /\ Len(ParamsIn(fn_calls[1], "CreateCreated")) = 1

====
